---- MODULE Spec2Model ----
(***************************************************************************)
(* ResonaCanvas: the placeable collection of src/App.tsx (images), its     *)
(* undo history, the selection, the synthesis orchestration                *)
(* (synthesizeAtPos and the two awaited geminiService calls), file         *)
(* ingestion (processFiles) and the direct-manipulation handlers of        *)
(* src/components/ImageCard.tsx.                                           *)
(*                                                                         *)
(* Numbers are fixed point: a size score and a proximity weight are kept   *)
(* in thousandths, their products (score, rawWeight) in millionths.        *)
(***************************************************************************)
EXTENDS Integers, Sequences, FiniteSets, TLC

(* ------------------------------ bounds --------------------------------- *)
\* ids handed out by uuidv4 over a whole run
MaxIds == 2
\* the same, in the runs that overlap two synthesizeAtPos calls
MaxIdsOverlap == 3
\* synthesizeAtPos invocations in flight at a time
MaxSynth == 2
\* processFiles invocations in flight at a time
MaxIngest == 1
\* files dropped in one processFiles call
MaxFiles == 1
\* snapshots in the history above which a snapshotting handler is held back
MaxHist == 1
\* mouse-downs on cards (select and drag) over a whole run
MaxGestures == 1

\* ids handed out over a run that starts from a full history
MaxIdsHistory == 12
\* snapshots pushed over such a run
MaxPushes == 2
MaxZooms == 3
MaxClicks == 3
MaxIdsScoring == 2
MaxCards == 4
MaxBoards == 2
MaxIdsStorage == 3
MaxIdsFallback == 3
MaxDragEvents == 3
MaxIdsSelect == 3

\* what one run may use: ids, gestures, and snapshots: the history may grow to
\* hist entries freely, and pushes further snapshots may be pushed onto a
\* history of hist entries or more
Bounds == [ids |-> MaxIds, hist |-> MaxHist, gestures |-> MaxGestures, pushes |-> 0]
OverlapBounds ==
  [ids |-> MaxIdsOverlap, hist |-> MaxHist, gestures |-> MaxGestures, pushes |-> 0]
DragBounds == [ids |-> 1, hist |-> 0, gestures |-> MaxDragEvents, pushes |-> 0]
FallbackBounds == [ids |-> MaxIdsFallback, hist |-> 0, gestures |-> 0, pushes |-> 0]
StorageBounds == [ids |-> MaxIdsStorage, hist |-> 0, gestures |-> 0, pushes |-> 0]
ContribBounds == [ids |-> MaxCards + 1, hist |-> 0, gestures |-> 0, pushes |-> 0]
ScoringBounds == [ids |-> MaxIdsScoring, hist |-> 0, gestures |-> 0, pushes |-> 0]
SelectBounds == [ids |-> MaxIdsSelect, hist |-> 0, gestures |-> MaxClicks, pushes |-> 1]
ViewportBounds == [ids |-> 0, hist |-> 0, gestures |-> MaxZooms, pushes |-> 0]
HistoryBounds ==
  [ids |-> MaxIdsHistory, hist |-> 0, gestures |-> MaxGestures, pushes |-> MaxPushes]

(* --------------------------- program constants ------------------------- *)
HistoryKeep == 19
AreaNorm == 40000
SizeScoreMin == 1
SizeScoreMax == 5
ScoreMax == 10
InfluenceRadius == 1000
GenSize == 400
BaseWidth == 200
MinWidth == 80
FileOffset == 30

\* canvas x coordinates used for drops, drags and synthesis targets
PosSet == {0, 1000}
\* widths a resize gesture ends on
WidthSet == {400}

NoText == ""
KeyMissingMsg == "API Key is missing."
ConnectKeyMsg == "Please connect your API key to synthesize."
EmptyFieldMsg == "Synthesis field is empty. Move reference images closer to the synthesis target."
KeyFailedMsg == "API Key verification failed. Please re-select a valid paid project key."
SynthFailedMsg == "Synthesis failed."
ImageFailedMsg == "Failed to generate image."
NoImageMsg == "No image data returned from the model."
EntityMsg == "Requested entity was not found."
ApiKeyMsg == "API_KEY_INVALID"
DefaultPrompt == "A fusion of concepts."
FileData == "data:image/png;base64,FILE"
GenData == "data:image/png;base64,GEN"
UserKey == "user-key"

\* messages of the errors the backend SDK throws ("" is an error without message)
BackendMessages == {EntityMsg, ApiKeyMsg, NoText}
\* texts the prompt model answers ("" is a missing or empty text)
PromptTexts == {"a prompt", NoText}

(* ------------------------------ helpers -------------------------------- *)
Min(a, b) == IF a < b THEN a ELSE b
Max(a, b) == IF a > b THEN a ELSE b

RECURSIVE SqrtSearch(_, _, _)
SqrtSearch(n, lo, hi) ==
  IF lo >= hi THEN lo
  ELSE LET mid == (lo + hi + 1) \div 2
       IN IF mid * mid <= n THEN SqrtSearch(n, mid, hi)
                            ELSE SqrtSearch(n, lo, mid - 1)

\* Math.sqrt, rounded down to a whole canvas unit
Sqrt(n) == SqrtSearch(n, 0, Min(n, 46340))

Ids(imgs) == {imgs[k].id : k \in 1..Len(imgs)}

Map(s, f(_)) == [k \in 1..Len(s) |-> f(s[k])]

RECURSIVE SumRaw(_)
SumRaw(s) == IF s = <<>> THEN 0 ELSE Head(s).rawWeight + SumRaw(Tail(s))

\* the viewport's numbers: JavaScript numbers, kept as exact fractions n / d
\* in lowest terms with d > 0 (the rounding of doubles is left out)
RECURSIVE Gcd(_, _)
Gcd(a, b) == IF b = 0 THEN a ELSE Gcd(b, a % b)
Abs(a) == IF a < 0 THEN 0 - a ELSE a
Rat(n, d) ==
  LET g == Gcd(Abs(n), Abs(d))
      sign == IF d < 0 THEN 0 - 1 ELSE 1
  IN [n |-> sign * (n \div g), d |-> sign * (d \div g)]
Whole(a) == [n |-> a, d |-> 1]
RatSub(p, q) == Rat(p.n * q.d - q.n * p.d, p.d * q.d)
RatMul(p, q) == Rat(p.n * q.n, p.d * q.d)
RatDiv(p, q) == Rat(p.n * q.d, p.d * q.n)
RatLeq(p, q) == p.n * q.d <= q.n * p.d
RatMin(p, q) == IF RatLeq(p, q) THEN p ELSE q
RatMax(p, q) == IF RatLeq(p, q) THEN q ELSE p

(* ------------------------- src/types.ts scoring ------------------------ *)
\* as calculateBaseSizeScore, without the Math.max(1, ...)
calculateBaseSizeScore_noFloor(width, height) ==
  LET area == width * height
  IN Min(SizeScoreMax * 1000, (area * 1000) \div AreaNorm)

\* Math.min(5, Math.max(1, area / 40000)), in thousandths
calculateBaseSizeScore(width, height) ==
  LET area == width * height
  IN Min(SizeScoreMax * 1000, Max(SizeScoreMin * 1000, (area * 1000) \div AreaNorm))

\* as calculateProximityWeight, without the dist > radius test
calculateProximityWeight_noCutoff(imgX, imgY, imgW, imgH, targetX, targetY, radius) ==
  LET centerX == imgX + imgW \div 2
      centerY == imgY + imgH \div 2
      d2 == (centerX - targetX) * (centerX - targetX)
            + (centerY - targetY) * (centerY - targetY)
      dist == Sqrt(d2)
  IN 1000 - (dist * 1000) \div radius

\* as calculateProximityWeight, measured from the item's top-left corner
calculateProximityWeight_corner(imgX, imgY, imgW, imgH, targetX, targetY, radius) ==
  LET d2 == (imgX - targetX) * (imgX - targetX) + (imgY - targetY) * (imgY - targetY)
      dist == Sqrt(d2)
  IN IF d2 > radius * radius THEN 0
     ELSE 1000 - (dist * 1000) \div radius

\* 0 beyond the radius, else 1 - dist / radius, in thousandths
calculateProximityWeight(imgX, imgY, imgW, imgH, targetX, targetY, radius) ==
  LET centerX == imgX + imgW \div 2
      centerY == imgY + imgH \div 2
      d2 == (centerX - targetX) * (centerX - targetX)
            + (centerY - targetY) * (centerY - targetY)
      dist == Sqrt(d2)
  IN IF d2 > radius * radius THEN 0
     ELSE 1000 - (dist * 1000) \div radius

(* ------------------------------- state --------------------------------- *)
VARIABLES
  images,           \* useState<ReferenceImage[]>: the placeables, back to front
  selectedIds,      \* useState<Set<string>>
  history,          \* useState<ReferenceImage[][]>: undo snapshots, newest last
  error,            \* useState<string | null>
  hasKey,           \* useState<boolean>
  apiKey,           \* useState<string>
  loadingStep,      \* useState<LoadingStep>
  isInitialLoading, \* useState<boolean>
  synth,            \* the synthesizeAtPos calls in flight: position, locals and
                    \* the log of the geminiService calls made and answered
  ingest,           \* the processFiles calls in flight: position, locals and
                    \* the snapshot saveToHistory pushed for the call
  gesture,          \* isDragging / isResizing of the card under the pointer
  gestures,         \* mouse-downs on cards so far
  pushes,           \* saveToHistory calls counted against the bound of a run
  nextId,           \* the next value uuidv4 returns
  transform,        \* useState({ x, y, scale }): the viewport
  boards            \* the records of the IndexedDB object store 'boards'

canvasVars == <<images, selectedIds, history>>
keyVars == <<hasKey, apiKey, isInitialLoading>>
vars == <<images, selectedIds, history, error, hasKey, apiKey, loadingStep,
          isInitialLoading, synth, ingest, gesture, gestures, pushes, nextId,
          transform, boards>>

\* useState({ x: 0, y: 0, scale: 0.8 })
InitialTransform == [x |-> Whole(0), y |-> Whole(0), scale |-> Rat(8, 10)]
\* Math.min(5, Math.max(0.05, ...)) of handleWheel
ScaleMin == Rat(5, 100)
ScaleMax == Whole(5)
\* the 0.001 of 1 - e.deltaY * 0.001
WheelStep == Rat(1, 1000)
\* <input type="range" min="0.1" max="2" step="0.01">, in steps
SliderMin == 10
SliderMax == 200
SliderStep == Rat(1, 100)
\* boardRef.current.getBoundingClientRect() of the window modelled
RectWidth == 800
RectHeight == 600
\* e.deltaY of the wheel events: factors 5/4, 1/2, 0, -1 and 21
DeltaYs == {0 - 250, 500, 1000, 2000, 0 - 20000}
\* e.clientX - rect.left, e.clientY - rect.top of the wheel events
MouseSet == {<<0, 0>>, <<200, 500>>}
\* e.target.value of the slider, in steps
SliderValues == {SliderMin, 50, SliderMax}

\* the scoring inputs: centres and sides of the card on the board, corners of
\* the targets (their centres lie 0, 100, 300, 500, 900, 1000 and just over
\* 1000 away from the centres), and values of the Influence Radius slider
ScoreCentres == {<<0, 0>>, <<60, 80>>}
ScoreSizes == {100, 200, 400, 500}
ScoreTargets ==
  {<<0 - 200, 0 - 200>>, <<0 - 20, 40>>, <<0 - 19, 40>>, <<100, 200>>, <<400, 600>>,
   <<401, 600>>, <<460, 680>>, <<800, 0 - 200>>}
RadiusSet == {300, InfluenceRadius}

\* the contribution inputs: width and height of the cards stacked on one
\* centre (size scores 1, 3 and 4), and corners of the targets (centres 0 and
\* 500 away)
ContribSizes == {<<200, 200>>, <<400, 300>>, <<400, 400>>}
ContribTargets == {<<0 - 200, 0 - 200>>, <<100, 200>>}

Null == "<null>"
NoSynthesisData == <<>>
NoGesture == [kind |-> "none", id |-> 0]

\* process.env.NEXT_PUBLIC_GEMINI_API_KEY and process.env.API_KEY of the build
EnvPublicKey == NoText
EnvApiKey == NoText

IdleSynth ==
  [pc |-> "idle", genId |-> 0, scoredImages |-> <<>>, synthesisSources |-> <<>>,
   prompt |-> NoText, apiKey |-> NoText, log |-> <<>>, model |-> NoText, request |-> 0]
IdleIngest == [pc |-> "idle", files |-> 0, startX |-> 0, startY |-> 0, snapshot |-> <<>>]

Init ==
  /\ images = <<>>
  /\ selectedIds = {}
  /\ history = <<>>
  /\ error = Null
  /\ hasKey = FALSE
  /\ apiKey = EnvPublicKey
  /\ loadingStep = "IDLE"
  /\ isInitialLoading = TRUE
  /\ synth = [i \in 1..MaxSynth |-> IdleSynth]
  /\ ingest = [k \in 1..MaxIngest |-> IdleIngest]
  /\ gesture = NoGesture
  /\ gestures = 0
  /\ pushes = 0
  /\ nextId = 1
  /\ transform = InitialTransform
  /\ boards = {}

(* --------------------------- collection updates ------------------------ *)
\* as saveToHistory, keeping the first 19 snapshots instead of the last 19
saveToHistory_keepsOldest(prev, imgs) ==
  SubSeq(prev, 1, Min(Len(prev), HistoryKeep)) \o <<imgs>>

\* setHistory(prev => [...prev.slice(-19), [...images]])
saveToHistory(prev, imgs) ==
  LET n == Len(prev)
  IN SubSeq(prev, Max(1, n - HistoryKeep + 1), n) \o <<imgs>>

\* prev.filter(img => img.id !== id)
removeId(prev, id) == SelectSeq(prev, LAMBDA img : img.id # id)

\* prev.filter(img => !selectedIds.has(img.id))
removeSelected(prev, sel) == SelectSeq(prev, LAMBDA img : img.id \notin sel)

\* prev.map(img => img.id === id ? { ...img, x, y } : img)
updatePosition(prev, id, x, y) ==
  Map(prev, LAMBDA img : IF img.id = id THEN [img EXCEPT !.x = x, !.y = y] ELSE img)

\* prev.map(img => img.id === id ? { ...img, width, height } : img)
updateSize(prev, id, width, height) ==
  Map(prev, LAMBDA img :
        IF img.id = id THEN [img EXCEPT !.width = width, !.height = height] ELSE img)

\* as bringToFront, raising the entry by one index instead of to the last
bringToFront_raisesOneStep(prev, id) ==
  IF id \notin Ids(prev) THEN prev
  ELSE LET idx == CHOOSE k \in 1..Len(prev) : prev[k].id = id
       IN IF idx = Len(prev) THEN prev
          ELSE [k \in 1..Len(prev) |->
                  IF k = idx THEN prev[idx + 1]
                  ELSE IF k = idx + 1 THEN prev[idx] ELSE prev[k]]

\* as bringToFront, swapping the entry with the last one
bringToFront_swaps(prev, id) ==
  IF id \notin Ids(prev) THEN prev
  ELSE LET idx == CHOOSE k \in 1..Len(prev) : prev[k].id = id
       IN [k \in 1..Len(prev) |->
             IF k = idx THEN prev[Len(prev)]
             ELSE IF k = Len(prev) THEN prev[idx] ELSE prev[k]]

\* findIndex, splice, push
bringToFront(prev, id) ==
  IF id \notin Ids(prev) THEN prev
  ELSE LET idx == CHOOSE k \in 1..Len(prev) : prev[k].id = id
       IN SubSeq(prev, 1, idx - 1) \o SubSeq(prev, idx + 1, Len(prev)) \o <<prev[idx]>>

\* as handleSelect, toggling id in the previous selection whatever multi is
handleSelect_alwaysToggles(prev, id, multi) ==
  IF id \in prev THEN prev \ {id} ELSE prev \cup {id}

\* as handleSelect, a multi-select never taking id out of the selection
handleSelect_neverRemoves(prev, id, multi) ==
  LET next == IF multi THEN prev ELSE {}
  IN next \cup {id}

\* multi ? toggle id : {id}
handleSelect(prev, id, multi) ==
  LET next == IF multi THEN prev ELSE {}
  IN IF id \in next /\ multi THEN next \ {id} ELSE next \cup {id}

\* a card that leaves the collection unmounts and loses isDragging / isResizing
Mounted(g, imgs) == IF g.id \in Ids(imgs) THEN g ELSE NoGesture

(* ---------------------------- synthesizeAtPos -------------------------- *)
\* useState<AppSettings> as constructed (the settings dialog is not modelled)
settings ==
  [model |-> "gemini-2.5-flash-image", aspectRatio |-> "1:1",
   influenceRadius |-> InfluenceRadius]

\* let height = size; if (aspectRatio === '16:9') height = size * (9/16); ...
targetHeight(size, aspectRatio) ==
  CASE aspectRatio = "16:9" -> (size * 9) \div 16
    [] aspectRatio = "9:16" -> (size * 16) \div 9
    [] aspectRatio = "4:3" -> (size * 3) \div 4
    [] OTHER -> size

\* as notGenerating, without the filter
notGenerating_all(imgs) == imgs

\* images.filter(img => !img.isGenerating)
notGenerating(imgs) == SelectSeq(imgs, LAMBDA img : ~img.isGenerating)

\* .map(img => ({...img, score: clamp(sizeScore * proxWeight * 2), rawWeight}))
scoreOne(img, targetCenterX, targetCenterY) ==
  LET sizeScore == calculateBaseSizeScore(img.width, img.height)
      proxWeight == calculateProximityWeight(img.x, img.y, img.width, img.height,
                                             targetCenterX, targetCenterY,
                                             settings.influenceRadius)
      combinedScore == sizeScore * proxWeight * 2
  IN [id |-> img.id, base64 |-> img.base64,
      score |-> Max(0, Min(ScoreMax * 1000000, combinedScore)),
      rawWeight |-> sizeScore * proxWeight]

\* the whole chain: filter, map, .filter(img => (img.score || 0) > 0)
scoreImages(imgs, targetCenterX, targetCenterY) ==
  SelectSeq(Map(notGenerating(imgs),
                LAMBDA img : scoreOne(img, targetCenterX, targetCenterY)),
            LAMBDA sc : sc.score > 0)

\* as influenceScore, written as a percentage of the highest score
influenceScore_percent(score) ==
  IF score = 0 THEN 50 ELSE (score + 50000) \div 100000

\* generateSynthesisPrompt: `[Influence Score: ${Math.round(img.score || 5)}]`,
\* of a score in millionths
influenceScore(score) ==
  IF score = 0 THEN 5 ELSE (score + 500000) \div 1000000

\* Math.round((rawWeight / totalRawWeight) * 100)
contributionOf(rawWeight, totalRawWeight) ==
  (200 * rawWeight + totalRawWeight) \div (2 * totalRawWeight)

\* Array.prototype.sort((a, b) => b.contribution - a.contribution): stable
RECURSIVE sortByContribution(_)
sortByContribution(s) ==
  IF s = <<>> THEN <<>>
  ELSE LET rest == sortByContribution(SubSeq(s, 1, Len(s) - 1))
           last == s[Len(s)]
           before == SelectSeq(rest, LAMBDA e : e.contribution >= last.contribution)
           after == SelectSeq(rest, LAMBDA e : e.contribution < last.contribution)
       IN before \o <<last>> \o after

\* scoredImages.map(img => ({thumbnail, contribution})).sort(...)
buildSources(scoredImages) ==
  LET totalRawWeight == SumRaw(scoredImages)
  IN sortByContribution(
       Map(scoredImages, LAMBDA sc :
             [thumbnail |-> sc.base64,
              contribution |-> contributionOf(sc.rawWeight, totalRawWeight)]))

\* const placeholder: ReferenceImage = {id: genId, base64: '', ..., isGenerating: true}
makePlaceholder(genId, posX, posY, width, height) ==
  [id |-> genId, base64 |-> NoText, x |-> posX, y |-> posY, width |-> width,
   height |-> height, isGenerating |-> TRUE, synthesisData |-> NoSynthesisData]

\* as reconcile, adding the result when no entry has the id
reconcile_upserts(prev, genId, imageUrl, prompt, sources) ==
  LET result == [id |-> genId, base64 |-> imageUrl, x |-> 0, y |-> 0, width |-> GenSize,
                 height |-> GenSize, isGenerating |-> FALSE,
                 synthesisData |-> <<[prompt |-> prompt, sources |-> sources]>>]
  IN IF genId \in Ids(prev)
     THEN Map(prev, LAMBDA img :
                IF img.id = genId
                THEN [img EXCEPT !.base64 = imageUrl, !.isGenerating = FALSE,
                                 !.synthesisData = <<[prompt |-> prompt, sources |-> sources]>>]
                ELSE img)
     ELSE Append(prev, result)

\* as reconcile, dropping the placeholder and pushing the result on top
reconcile_appends(prev, genId, imageUrl, prompt, sources) ==
  IF genId \notin Ids(prev) THEN prev
  ELSE LET idx == CHOOSE k \in 1..Len(prev) : prev[k].id = genId
       IN SelectSeq(prev, LAMBDA img : img.id # genId)
          \o <<[prev[idx] EXCEPT !.base64 = imageUrl, !.isGenerating = FALSE,
                                 !.synthesisData = <<[prompt |-> prompt, sources |-> sources]>>]>>

\* as reconcile, leaving isGenerating set
reconcile_keepsFlag(prev, genId, imageUrl, prompt, sources) ==
  Map(prev, LAMBDA img :
        IF img.id = genId
        THEN [img EXCEPT !.base64 = imageUrl,
                         !.synthesisData = <<[prompt |-> prompt, sources |-> sources]>>]
        ELSE img)

\* prev.map(img => img.id === genId ? {...img, base64, isGenerating: false, synthesisData} : img)
reconcile(prev, genId, imageUrl, prompt, sources) ==
  Map(prev, LAMBDA img :
        IF img.id = genId
        THEN [img EXCEPT !.base64 = imageUrl, !.isGenerating = FALSE,
                         !.synthesisData = <<[prompt |-> prompt, sources |-> sources]>>]
        ELSE img)

\* err.message?.includes("Requested entity was not found") || includes("API_KEY")
isKeyFailure(message) == message \in {EntityMsg, ApiKeyMsg}

\* the lowest call record not in use (a record is free again once its call returned)
FreeSynth == {i \in 1..MaxSynth : synth[i].pc = "idle" /\ \A j \in 1..(i - 1) : synth[j].pc # "idle"}
FreeIngest == {k \in 1..MaxIngest : ingest[k].pc = "idle" /\ \A j \in 1..(k - 1) : ingest[j].pc # "idle"}

\* what checkKey stores: the answer of window.aistudio.hasSelectedApiKey() in
\* AI Studio, false outside it or when the call throws
AiStudioAnswers == BOOLEAN

\* window.prompt of handleOpenKeySelection: "" is a cancelled or empty input
KeyInputs == {NoText, UserKey}

\* if (userKey) { setApiKey(userKey); setHasKey(true); setError(null); }
handleOpenKeySelection(userKey) ==
  /\ ~isInitialLoading
  /\ IF userKey # NoText
     THEN apiKey' = userKey /\ hasKey' = TRUE /\ error' = Null
     ELSE UNCHANGED <<apiKey, hasKey, error>>
  /\ UNCHANGED <<canvasVars, loadingStep, isInitialLoading, synth, ingest, gesture, gestures, pushes, nextId, transform, boards>>

\* checkKey, run once by the mount effect: hasSelectedApiKey() or false
checkKey(has) ==
  /\ isInitialLoading
  /\ hasKey' = has
  /\ isInitialLoading' = FALSE
  /\ UNCHANGED <<canvasVars, error, apiKey, loadingStep, synth, ingest, gesture, gestures, pushes, nextId, transform, boards>>

\* synthesizeAtPos up to its first await
synthesizeAtPos(b, posX, posY, size, userKey) ==
  /\ ~isInitialLoading
  /\ IF ~hasKey
     THEN \* setError(...); handleOpenKeySelection(); return
          /\ IF userKey # NoText
             THEN apiKey' = userKey /\ hasKey' = TRUE /\ error' = Null
             ELSE error' = ConnectKeyMsg /\ UNCHANGED <<apiKey, hasKey>>
          /\ UNCHANGED <<canvasVars, loadingStep, isInitialLoading, synth, ingest,
                         gesture, gestures, pushes, nextId, transform, boards>>
     ELSE LET width == size
              height == targetHeight(size, settings.aspectRatio)
              targetCenterX == posX + width \div 2
              targetCenterY == posY + height \div 2
              scoredImages == scoreImages(images, targetCenterX, targetCenterY)
          IN /\ userKey = NoText
             /\ IF Len(scoredImages) = 0
                THEN /\ error' = EmptyFieldMsg
                     /\ loadingStep' = "IDLE"
                     /\ UNCHANGED <<canvasVars, keyVars, synth, ingest, gesture, gestures, pushes, nextId, transform, boards>>
                ELSE \E i \in FreeSynth :
                     /\ nextId <= b.ids
                     /\ images' = Append(images,
                                         makePlaceholder(nextId, posX, posY, width, height))
                     /\ synth' = [synth EXCEPT ![i] =
                                    [pc |-> "prompt", genId |-> nextId,
                                     scoredImages |-> scoredImages,
                                     synthesisSources |-> buildSources(scoredImages),
                                     prompt |-> NoText, apiKey |-> apiKey,
                                     log |-> <<"generateSynthesisPrompt">>,
                                     model |-> settings.model, request |-> 0]]
                     /\ nextId' = nextId + 1
                     /\ error' = Null
                     /\ loadingStep' = "ANALYZING"
                     /\ UNCHANGED <<selectedIds, history, keyVars, ingest, gesture, gestures, pushes, transform, boards>>

\* as catch, turning the placeholder into an empty card instead of removing it
catch_leavesCard(i, message) ==
  /\ IF isKeyFailure(message)
     THEN error' = KeyFailedMsg /\ hasKey' = FALSE
     ELSE /\ error' = (IF message # NoText THEN message ELSE SynthFailedMsg)
          /\ UNCHANGED hasKey
  /\ images' = Map(images, LAMBDA img :
                     IF img.id = synth[i].genId THEN [img EXCEPT !.isGenerating = FALSE]
                     ELSE img)
  /\ loadingStep' = "ERROR"
  /\ synth' = [synth EXCEPT ![i] = IdleSynth]
  /\ UNCHANGED <<selectedIds, history, apiKey, isInitialLoading, ingest, gesture,
                 gestures, pushes, nextId, transform, boards>>

\* as catch, removing every placeholder still generating
catch_clearsPending(i, message) ==
  /\ IF isKeyFailure(message)
     THEN error' = KeyFailedMsg /\ hasKey' = FALSE
     ELSE /\ error' = (IF message # NoText THEN message ELSE SynthFailedMsg)
          /\ UNCHANGED hasKey
  /\ images' = SelectSeq(images, LAMBDA img : ~img.isGenerating)
  /\ gesture' = Mounted(gesture, images')
  /\ loadingStep' = "ERROR"
  /\ synth' = [synth EXCEPT ![i] = IdleSynth]
  /\ UNCHANGED <<selectedIds, history, apiKey, isInitialLoading, ingest, gestures, pushes, nextId, transform, boards>>

\* as catch, reporting the error and leaving the placeholder where it is
catch_reportsOnly(i, message) ==
  /\ IF isKeyFailure(message)
     THEN error' = KeyFailedMsg /\ hasKey' = FALSE
     ELSE /\ error' = (IF message # NoText THEN message ELSE SynthFailedMsg)
          /\ UNCHANGED hasKey
  /\ loadingStep' = "ERROR"
  /\ synth' = [synth EXCEPT ![i] = IdleSynth]
  /\ UNCHANGED <<canvasVars, apiKey, isInitialLoading, ingest, gesture, gestures, pushes,
                 nextId, transform, boards>>

\* as catch, reporting a key failure without setHasKey(false)
catch_keepsFlag(i, message) ==
  /\ error' = (IF isKeyFailure(message) THEN KeyFailedMsg
               ELSE IF message # NoText THEN message ELSE SynthFailedMsg)
  /\ images' = removeId(images, synth[i].genId)
  /\ gesture' = Mounted(gesture, images')
  /\ loadingStep' = "ERROR"
  /\ synth' = [synth EXCEPT ![i] = IdleSynth]
  /\ UNCHANGED <<selectedIds, history, keyVars, ingest, gestures, pushes, nextId, transform, boards>>

\* as catch, returning right after a key failure is reported
catch_returnsEarly(i, message) ==
  /\ IF isKeyFailure(message)
     THEN /\ error' = KeyFailedMsg /\ hasKey' = FALSE
          /\ UNCHANGED <<images, gesture, loadingStep>>
     ELSE /\ error' = (IF message # NoText THEN message ELSE SynthFailedMsg)
          /\ UNCHANGED hasKey
          /\ images' = removeId(images, synth[i].genId)
          /\ gesture' = Mounted(gesture, images')
          /\ loadingStep' = "ERROR"
  /\ synth' = [synth EXCEPT ![i] = IdleSynth]
  /\ UNCHANGED <<selectedIds, history, apiKey, isInitialLoading, ingest, gestures, pushes, nextId, transform, boards>>

\* the catch block of synthesizeAtPos
catch(i, message) ==
  /\ IF isKeyFailure(message)
     THEN error' = KeyFailedMsg /\ hasKey' = FALSE
     ELSE /\ error' = (IF message # NoText THEN message ELSE SynthFailedMsg)
          /\ UNCHANGED hasKey
  /\ images' = removeId(images, synth[i].genId)
  /\ gesture' = Mounted(gesture, images')
  /\ loadingStep' = "ERROR"
  /\ synth' = [synth EXCEPT ![i] = IdleSynth]
  /\ UNCHANGED <<selectedIds, history, apiKey, isInitialLoading, ingest, gestures, pushes, nextId, transform, boards>>

\* apiKey || process.env.NEXT_PUBLIC_GEMINI_API_KEY || process.env.API_KEY || ""
effectiveKey(key) ==
  IF key # NoText THEN key ELSE IF EnvPublicKey # NoText THEN EnvPublicKey ELSE EnvApiKey

\* generateSynthesisPrompt resolves: response.text()?.trim() || default, then
\* setLoadingStep(GENERATING) and the call of generateImage
promptResolved(i, text) ==
  /\ synth[i].pc = "prompt"
  /\ effectiveKey(synth[i].apiKey) # NoText
  /\ synth' = [synth EXCEPT ![i].pc = "image",
                            ![i].prompt = IF text # NoText THEN text ELSE DefaultPrompt,
                            ![i].log = @ \o <<"promptResolved", "generateImage">>]
  /\ loadingStep' = "GENERATING"
  /\ UNCHANGED <<canvasVars, error, keyVars, ingest, gesture, gestures, pushes, nextId, transform, boards>>

\* as promptRejected, going on to generateImage with the default prompt
promptRejected_fallsBack(i, message) ==
  /\ synth[i].pc = "prompt"
  /\ IF effectiveKey(synth[i].apiKey) = NoText
     THEN message = KeyMissingMsg
     ELSE message \in BackendMessages
  /\ synth' = [synth EXCEPT ![i].pc = "image",
                            ![i].prompt = DefaultPrompt,
                            ![i].log = @ \o <<"promptRejected", "generateImage">>]
  /\ loadingStep' = "GENERATING"
  /\ UNCHANGED <<canvasVars, error, keyVars, ingest, gesture, gestures, pushes, nextId, transform, boards>>

\* generateSynthesisPrompt rejects: no key, or the backend error rethrown as it is
promptRejected(i, message) ==
  /\ synth[i].pc = "prompt"
  /\ IF effectiveKey(synth[i].apiKey) = NoText
     THEN message = KeyMissingMsg
     ELSE message \in BackendMessages
  /\ catch(i, message)

\* generateImage resolves with a data URL; the functional update of images follows
imageResolved(i, imageUrl) ==
  /\ synth[i].pc = "image"
  /\ effectiveKey(synth[i].apiKey) # NoText
  /\ images' = reconcile(images, synth[i].genId, imageUrl, synth[i].prompt,
                         synth[i].synthesisSources)
  /\ loadingStep' = "COMPLETED"
  /\ synth' = [synth EXCEPT ![i] = IdleSynth]
  /\ UNCHANGED <<selectedIds, history, error, keyVars, ingest, gesture, gestures, pushes, nextId, transform, boards>>

\* generateImage rejects: new Error(error.message || "Failed to generate image.")
imageRejected(i, message) ==
  /\ synth[i].pc = "image"
  /\ IF effectiveKey(synth[i].apiKey) = NoText
     THEN message = KeyMissingMsg
     ELSE message \in (BackendMessages \cup {NoImageMsg})
  /\ catch(i, IF message # NoText THEN message ELSE ImageFailedMsg)

\* the model generateImage falls back to
ImagenModel == "imagen-4.0-generate-001"

\* backend errors of generateImages that hold "not supported" or "404"
NotSupportedMsg == "Model is not supported for generateImages"
NotFoundMsg == "404 Not Found"

\* error.message?.includes("not supported") || error.message?.includes("404")
isUnsupported(message) == message \in {NotSupportedMsg, NotFoundMsg}

\* generateImage catches an error that holds "not supported" or "404": it calls
\* itself with the Imagen model, which sends the next request (request is the
\* number of requests sent so far, modulo 2)
imageFallback(i, message) ==
  /\ synth[i].pc = "image"
  /\ effectiveKey(synth[i].apiKey) # NoText
  /\ isUnsupported(message)
  /\ synth' = [synth EXCEPT ![i].model = ImagenModel,
                            ![i].request = (@ + 1) % 2]
  /\ UNCHANGED <<canvasVars, error, keyVars, loadingStep, ingest, gesture, gestures,
                 pushes, nextId, transform, boards>>

(* ------------------------------ processFiles --------------------------- *)
\* a handler that calls saveToHistory is held back once the run has used up
\* its snapshots
maySnapshot(b) == Len(history) < b.hist \/ pushes < b.pushes
countSnapshot(b) == IF Len(history) < b.hist THEN pushes ELSE pushes + 1

\* canvas y coordinates used for drops and synthesis targets
YSet == {0}

\* resolve({id: uuidv4(), base64, x: startX + index * 30, y: ..., width: 200, height: 200 * ratio})
newImage(id, index, startX, startY) ==
  [id |-> id, base64 |-> FileData, x |-> startX + index * FileOffset,
   y |-> startY + index * FileOffset, width |-> BaseWidth, height |-> BaseWidth,
   isGenerating |-> FALSE, synthesisData |-> NoSynthesisData]

\* processFiles up to its await: saveToHistory(), then the files start loading
processFiles(b, files, startX, startY) ==
  /\ ~isInitialLoading
  /\ maySnapshot(b)
  /\ \E k \in FreeIngest :
       ingest' = [ingest EXCEPT ![k] =
                    [pc |-> "loading", files |-> files, startX |-> startX,
                     startY |-> startY, snapshot |-> images]]
  /\ history' = saveToHistory(history, images)
  /\ pushes' = countSnapshot(b)
  /\ UNCHANGED <<images, selectedIds, error, keyVars, loadingStep, synth, gesture, gestures, nextId, transform, boards>>

\* Promise.all resolved: setImages(prev => [...prev, ...newImages])
filesLoaded(b, k) ==
  /\ ingest[k].pc = "loading"
  /\ nextId + ingest[k].files - 1 <= b.ids
  /\ images' = images \o [index \in 1..ingest[k].files |->
                            newImage(nextId + index - 1, index - 1,
                                     ingest[k].startX, ingest[k].startY)]
  /\ nextId' = nextId + ingest[k].files
  /\ ingest' = [ingest EXCEPT ![k] = IdleIngest]
  /\ UNCHANGED <<selectedIds, history, error, keyVars, loadingStep, synth, gesture,
                 gestures, pushes, transform, boards>>

(* ------------------------- removal and undo ---------------------------- *)
\* ImageCard close button (rendered only when !item.isGenerating): onRemove(id)
onRemove(b, id) ==
  /\ ~isInitialLoading
  /\ maySnapshot(b)
  /\ \E k \in 1..Len(images) : images[k].id = id /\ ~images[k].isGenerating
  /\ history' = saveToHistory(history, images)
  /\ pushes' = countSnapshot(b)
  /\ images' = removeId(images, id)
  /\ gesture' = Mounted(gesture, images')
  /\ UNCHANGED <<selectedIds, error, keyVars, loadingStep, synth, ingest, gestures, nextId, transform, boards>>

\* context menu "Dissolve Node" on the card the menu was opened on
dissolveNode(b, targetImageId) ==
  /\ ~isInitialLoading
  /\ maySnapshot(b)
  /\ targetImageId \in 1..(nextId - 1)
  /\ history' = saveToHistory(history, images)
  /\ pushes' = countSnapshot(b)
  /\ images' = removeId(images, targetImageId)
  /\ gesture' = Mounted(gesture, images')
  /\ UNCHANGED <<selectedIds, error, keyVars, loadingStep, synth, ingest, gestures, nextId, transform, boards>>

\* handleKeyDown, Backspace / Delete with a selection
deleteSelected(b) ==
  /\ ~isInitialLoading
  /\ maySnapshot(b)
  /\ selectedIds # {}
  /\ history' = saveToHistory(history, images)
  /\ pushes' = countSnapshot(b)
  /\ images' = removeSelected(images, selectedIds)
  /\ selectedIds' = {}
  /\ gesture' = Mounted(gesture, images')
  /\ UNCHANGED <<error, keyVars, loadingStep, synth, ingest, gestures, nextId, transform, boards>>

\* as undo, without the history.length > 0 test: an empty history restores
\* an empty board
undo_unguarded ==
  /\ ~isInitialLoading
  /\ images' = (IF Len(history) > 0 THEN history[Len(history)] ELSE <<>>)
  /\ history' = SubSeq(history, 1, Len(history) - 1)
  /\ gesture' = Mounted(gesture, images')
  /\ UNCHANGED <<selectedIds, error, keyVars, loadingStep, synth, ingest, gestures, pushes, nextId, transform, boards>>

\* as undo, putting the snapshot back on top of the collection instead of
\* replacing the collection
undo_merges ==
  /\ ~isInitialLoading
  /\ IF Len(history) > 0
     THEN /\ images' = images \o history[Len(history)]
          /\ history' = SubSeq(history, 1, Len(history) - 1)
          /\ gesture' = Mounted(gesture, images')
     ELSE UNCHANGED <<images, history, gesture>>
  /\ UNCHANGED <<selectedIds, error, keyVars, loadingStep, synth, ingest, gestures, pushes, nextId, transform, boards>>

\* as undo, taking the oldest snapshot instead of the newest
undo_restoresOldest ==
  /\ ~isInitialLoading
  /\ IF Len(history) > 0
     THEN /\ images' = history[1]
          /\ history' = SubSeq(history, 2, Len(history))
          /\ gesture' = Mounted(gesture, images')
     ELSE UNCHANGED <<images, history, gesture>>
  /\ UNCHANGED <<selectedIds, error, keyVars, loadingStep, synth, ingest, gestures, pushes, nextId, transform, boards>>

\* handleKeyDown, Ctrl/Cmd+Z
undo ==
  /\ ~isInitialLoading
  /\ IF Len(history) > 0
     THEN /\ images' = history[Len(history)]
          /\ history' = SubSeq(history, 1, Len(history) - 1)
          /\ gesture' = Mounted(gesture, images')
     ELSE UNCHANGED <<images, history, gesture>>
  /\ UNCHANGED <<selectedIds, error, keyVars, loadingStep, synth, ingest, gestures, pushes, nextId, transform, boards>>

(* ------------------------------ gestures ------------------------------- *)
\* ImageCard.handleMouseDown: onSelect, onBringToFront, setIsDragging(true)
handleMouseDown(b, id, multi) ==
  /\ ~isInitialLoading
  /\ gesture = NoGesture
  /\ gestures < b.gestures
  /\ id \in Ids(images)
  /\ selectedIds' = handleSelect(selectedIds, id, multi)
  /\ images' = bringToFront(images, id)
  /\ gesture' = [kind |-> "drag", id |-> id]
  /\ gestures' = gestures + 1
  /\ UNCHANGED pushes
  /\ UNCHANGED <<history, error, keyVars, loadingStep, synth, ingest, nextId, transform, boards>>

\* ImageCard.handleMouseDown with the pointer of its event: as handleMouseDown,
\* and dragOffset.current = { x: e.clientX / zoom - item.x, y: e.clientY / zoom - item.y }
\* with zoom the card's prop, transform.scale. down and start keep the event's
\* pointer and the item's position for the properties about the gesture.
cardMouseDown(b, id, multi, clientX, clientY) ==
  /\ ~isInitialLoading
  /\ gesture = NoGesture
  /\ gestures < b.gestures
  /\ \E k \in 1..Len(images) :
       /\ images[k].id = id
       /\ LET item == images[k]
              zoom == transform.scale
          IN gesture' = [kind |-> "drag", id |-> id,
                         dragOffset |-> [x |-> RatSub(RatDiv(Whole(clientX), zoom), item.x),
                                         y |-> RatSub(RatDiv(Whole(clientY), zoom), item.y)],
                         down |-> [x |-> clientX, y |-> clientY],
                         start |-> [x |-> item.x, y |-> item.y]]
  /\ selectedIds' = handleSelect(selectedIds, id, multi)
  /\ images' = bringToFront(images, id)
  /\ gestures' = gestures + 1
  /\ UNCHANGED <<history, error, keyVars, loadingStep, synth, ingest, pushes, nextId,
                 transform, boards>>

\* ImageCard.handleMouseMove while dragging, with the pointer of its event:
\* onUpdatePosition(item.id, e.clientX / zoom - dragOffset.current.x, ...); the
\* effect registers the listener again when zoom changes, so zoom is the
\* current transform.scale
cardMouseMove(clientX, clientY) ==
  /\ gesture.kind = "drag"
  /\ LET zoom == transform.scale
     IN images' = updatePosition(images, gesture.id,
                                 RatSub(RatDiv(Whole(clientX), zoom), gesture.dragOffset.x),
                                 RatSub(RatDiv(Whole(clientY), zoom), gesture.dragOffset.y))
  /\ UNCHANGED <<selectedIds, history, error, keyVars, loadingStep, synth, ingest,
                 gesture, gestures, pushes, nextId, transform, boards>>

\* as handleResizeStart, without the onBringToFront call
handleResizeStart_keepsOrder(id) ==
  /\ ~isInitialLoading
  /\ gesture = NoGesture
  /\ id \in selectedIds
  /\ \E k \in 1..Len(images) : images[k].id = id /\ ~images[k].isGenerating
  /\ gesture' = [kind |-> "resize", id |-> id]
  /\ UNCHANGED <<images, selectedIds, history, error, keyVars, loadingStep, synth, ingest,
                 gestures, pushes, nextId, transform, boards>>

\* ImageCard.handleResizeStart (handle rendered when isSelected && !isGenerating)
handleResizeStart(id) ==
  /\ ~isInitialLoading
  /\ gesture = NoGesture
  /\ id \in selectedIds
  /\ \E k \in 1..Len(images) : images[k].id = id /\ ~images[k].isGenerating
  /\ images' = bringToFront(images, id)
  /\ gesture' = [kind |-> "resize", id |-> id]
  /\ UNCHANGED <<selectedIds, history, error, keyVars, loadingStep, synth, ingest,
                 gestures, pushes, nextId, transform, boards>>

\* as dragMove, with the entries of the stored snapshots shared with the
\* collection and moved in place
dragMove_movesSnapshots(x, y) ==
  /\ gesture.kind = "drag"
  /\ images' = updatePosition(images, gesture.id, x, y)
  /\ history' = Map(history, LAMBDA snapshot : updatePosition(snapshot, gesture.id, x, y))
  /\ UNCHANGED <<selectedIds, error, keyVars, loadingStep, synth, ingest,
                 gesture, gestures, pushes, nextId, transform, boards>>

\* as dragMove, with a snapshot pushed before each position update
dragMove_snapshots(x, y) ==
  /\ gesture.kind = "drag"
  /\ history' = saveToHistory(history, images)
  /\ images' = updatePosition(images, gesture.id, x, y)
  /\ UNCHANGED <<selectedIds, error, keyVars, loadingStep, synth, ingest,
                 gesture, gestures, pushes, nextId, transform, boards>>

\* ImageCard.handleMouseMove while dragging: onUpdatePosition(item.id, ...)
dragMove(x, y) ==
  /\ gesture.kind = "drag"
  /\ images' = updatePosition(images, gesture.id, x, y)
  /\ UNCHANGED <<selectedIds, history, error, keyVars, loadingStep, synth, ingest,
                 gesture, gestures, pushes, nextId, transform, boards>>

\* ImageCard.handleMouseMove while resizing: onUpdateSize(item.id, newWidth, newWidth * aspectRatio)
resizeMove(newWidth) ==
  /\ gesture.kind = "resize"
  /\ newWidth >= MinWidth
  /\ \E k \in 1..Len(images) :
       /\ images[k].id = gesture.id
       /\ images' = updateSize(images, gesture.id, newWidth,
                               (newWidth * images[k].height) \div images[k].width)
  /\ UNCHANGED <<selectedIds, history, error, keyVars, loadingStep, synth, ingest,
                 gesture, gestures, pushes, nextId, transform, boards>>

\* ImageCard.handleMouseUp
handleMouseUp ==
  /\ gesture # NoGesture
  /\ gesture' = NoGesture
  /\ UNCHANGED <<canvasVars, error, keyVars, loadingStep, synth, ingest, gestures, pushes, nextId, transform, boards>>

\* handleBoardMouseDown off any card: setSelectedIds(new Set())
handleBoardMouseDown ==
  /\ ~isInitialLoading
  /\ gesture = NoGesture
  /\ selectedIds' = {}
  /\ UNCHANGED <<images, history, error, keyVars, loadingStep, synth, ingest, gesture, gestures, pushes, nextId, transform, boards>>

(* ------------------------------ viewport ------------------------------- *)
\* as handleWheel, without the Math.min / Math.max around the new scale
handleWheel_unclamped(b, deltaY, mouseX, mouseY) ==
  /\ gestures < b.gestures
  /\ LET scaleFactor == RatSub(Whole(1), RatMul(Whole(deltaY), WheelStep))
         newScale == RatMul(transform.scale, scaleFactor)
         ratio == RatDiv(newScale, transform.scale)
         newX == RatSub(Whole(mouseX), RatMul(RatSub(Whole(mouseX), transform.x), ratio))
         newY == RatSub(Whole(mouseY), RatMul(RatSub(Whole(mouseY), transform.y), ratio))
     IN transform' = [x |-> newX, y |-> newY, scale |-> newScale]
  /\ gestures' = gestures + 1
  /\ UNCHANGED <<canvasVars, error, keyVars, loadingStep, synth, ingest, gesture, pushes, nextId, boards>>

\* handleWheel: zoom by 1 - deltaY * 0.001 around the pointer
handleWheel(b, deltaY, mouseX, mouseY) ==
  /\ gestures < b.gestures
  /\ LET scaleFactor == RatSub(Whole(1), RatMul(Whole(deltaY), WheelStep))
         newScale == RatMin(ScaleMax, RatMax(ScaleMin, RatMul(transform.scale, scaleFactor)))
         ratio == RatDiv(newScale, transform.scale)
         newX == RatSub(Whole(mouseX), RatMul(RatSub(Whole(mouseX), transform.x), ratio))
         newY == RatSub(Whole(mouseY), RatMul(RatSub(Whole(mouseY), transform.y), ratio))
     IN transform' = [x |-> newX, y |-> newY, scale |-> newScale]
  /\ gestures' = gestures + 1
  /\ UNCHANGED <<canvasVars, error, keyVars, loadingStep, synth, ingest, gesture, pushes, nextId, boards>>

\* as zoomSlider, zooming around the board's top left corner
zoomSlider_anchorsCorner(b, value) ==
  /\ gestures < b.gestures
  /\ value \in SliderMin..SliderMax
  /\ LET newScale == RatMul(Whole(value), SliderStep)
         ratio == RatDiv(newScale, transform.scale)
         newX == RatMul(transform.x, ratio)
         newY == RatMul(transform.y, ratio)
     IN transform' = [x |-> newX, y |-> newY, scale |-> newScale]
  /\ gestures' = gestures + 1
  /\ UNCHANGED <<canvasVars, error, keyVars, loadingStep, synth, ingest, gesture, pushes, nextId, boards>>

\* onChange of the "Viewport Zoom" slider: zoom to its value around the centre
zoomSlider(b, value) ==
  /\ gestures < b.gestures
  /\ value \in SliderMin..SliderMax
  /\ LET newScale == RatMul(Whole(value), SliderStep)
         cx == Rat(RectWidth, 2)
         cy == Rat(RectHeight, 2)
         ratio == RatDiv(newScale, transform.scale)
         newX == RatSub(cx, RatMul(RatSub(cx, transform.x), ratio))
         newY == RatSub(cy, RatMul(RatSub(cy, transform.y), ratio))
     IN transform' = [x |-> newX, y |-> newY, scale |-> newScale]
  /\ gestures' = gestures + 1
  /\ UNCHANGED <<canvasVars, error, keyVars, loadingStep, synth, ingest, gesture, pushes, nextId, boards>>

(* ------------------------------- storage ------------------------------- *)
\* saveBoard called without its id argument
NoBoardId == 0

\* the name given to a saved board
BoardNames == {"a board"}

\* as boardSnapshot, handing over the collection as it is
boardSnapshot_live(imgs) == [images |-> imgs, settings |-> settings]

\* the BoardState the core hands to the store: {placeables, settings} without
\* the Pending placeables
boardSnapshot(imgs) == [images |-> notGenerating(imgs), settings |-> settings]

\* crypto.randomUUID(): an id no stored record has
generatedId == CHOOSE id \in 1..(MaxBoards + 1) : \A board \in boards : board.id # id

\* StorageService.saveBoard: store.put({id: id || generatedId, name, timestamp,
\* state}) under keyPath 'id' (the timestamp is left out of the record)
saveBoard(name, state, id) ==
  /\ id = NoBoardId \/ \E board \in boards : board.id = id
  /\ id = NoBoardId => Cardinality(boards) < MaxBoards
  /\ LET board == [id |-> IF id # NoBoardId THEN id ELSE generatedId,
                   name |-> name, state |-> state]
     IN boards' = {other \in boards : other.id # board.id} \cup {board}
  /\ UNCHANGED <<canvasVars, error, keyVars, loadingStep, synth, ingest, gesture, gestures,
                 pushes, nextId, transform>>

(* --------------------------- specification ----------------------------- *)
Step(b) ==
  \/ \E userKey \in KeyInputs : handleOpenKeySelection(userKey)
  \/ \E posX \in PosSet, posY \in YSet, userKey \in KeyInputs :
       synthesizeAtPos(b, posX, posY, GenSize, userKey)
  \/ \E i \in 1..MaxSynth, text \in PromptTexts : promptResolved(i, text)
  \/ \E i \in 1..MaxSynth, message \in BackendMessages \cup {KeyMissingMsg} :
       promptRejected(i, message)
  \/ \E i \in 1..MaxSynth : imageResolved(i, GenData)
  \/ \E i \in 1..MaxSynth, message \in BackendMessages \cup {NoImageMsg, KeyMissingMsg} :
       imageRejected(i, message)
  \/ \E files \in 1..MaxFiles, startX \in PosSet, startY \in YSet :
       processFiles(b, files, startX, startY)
  \/ \E k \in 1..MaxIngest : filesLoaded(b, k)
  \/ \E id \in 1..b.ids : onRemove(b, id)
  \/ \E id \in 1..b.ids : dissolveNode(b, id)
  \/ deleteSelected(b)
  \/ undo
  \/ \E id \in 1..b.ids, multi \in BOOLEAN : handleMouseDown(b, id, multi)
  \/ \E id \in 1..b.ids : handleResizeStart(id)
  \/ \E x \in PosSet, y \in YSet : dragMove(x, y)
  \/ \E w \in WidthSet : resizeMove(w)
  \/ handleMouseUp
  \/ handleBoardMouseDown

Next ==
  \/ \E has \in AiStudioAnswers : checkKey(has)
  \/ Step(Bounds)
NextOverlap == Step(OverlapBounds)

\* from construction, two ids
Spec == Init /\ [][Next]_vars

\* a board of Spec: the key connected and one dropped file loaded at (0, 0)
InitOverlap ==
  /\ images = <<newImage(1, 0, 0, 0)>>
  /\ selectedIds = {}
  /\ history = << <<>> >>
  /\ error = Null
  /\ hasKey = TRUE
  /\ apiKey = UserKey
  /\ loadingStep = "IDLE"
  /\ isInitialLoading = FALSE
  /\ synth = [i \in 1..MaxSynth |-> IdleSynth]
  /\ ingest = [k \in 1..MaxIngest |-> IdleIngest]
  /\ gesture = NoGesture
  /\ gestures = 0
  /\ pushes = 0
  /\ nextId = 2
  /\ transform = InitialTransform
  /\ boards = {}

\* from that board, three ids: room for two overlapping synthesizeAtPos calls
SpecOverlap == InitOverlap /\ [][NextOverlap]_vars

\* the most snapshots saveToHistory keeps: prev.slice(-19) and the new one
Capacity == HistoryKeep + 1

\* a board of Spec with a full history: files were dropped one at a time and
\* each image but the last was removed again with its close button, so the
\* snapshots alternate between a one-image board (before a removal) and the
\* empty board (before a drop); the first snapshot pushed has been evicted
InitialHistory ==
  [j \in 1..Capacity |->
     IF j % 2 = 1 THEN <<newImage((j + 1) \div 2, 0, 0, 0)>> ELSE <<>>]
InitHistory ==
  /\ images = <<newImage(Capacity \div 2 + 1, 0, 0, 0)>>
  /\ selectedIds = {}
  /\ history = InitialHistory
  /\ error = Null
  /\ hasKey = TRUE
  /\ apiKey = UserKey
  /\ loadingStep = "IDLE"
  /\ isInitialLoading = FALSE
  /\ synth = [i \in 1..MaxSynth |-> IdleSynth]
  /\ ingest = [k \in 1..MaxIngest |-> IdleIngest]
  /\ gesture = NoGesture
  /\ gestures = 0
  /\ pushes = 0
  /\ nextId = Capacity \div 2 + 2
  /\ transform = InitialTransform
  /\ boards = {}

\* the handlers that read or write the history, with the mouse gesture that
\* selects a card for Backspace / Delete and drags it
NextHistory ==
  \/ \E files \in 1..MaxFiles, startX \in PosSet, startY \in YSet :
       processFiles(HistoryBounds, files, startX, startY)
  \/ \E k \in 1..MaxIngest : filesLoaded(HistoryBounds, k)
  \/ \E id \in 1..MaxIdsHistory : onRemove(HistoryBounds, id)
  \/ \E id \in 1..MaxIdsHistory : dissolveNode(HistoryBounds, id)
  \/ deleteSelected(HistoryBounds)
  \/ undo
  \/ \E id \in 1..MaxIdsHistory, multi \in BOOLEAN : handleMouseDown(HistoryBounds, id, multi)
  \/ \E x \in PosSet, y \in YSet : dragMove(x, y)
  \/ handleMouseUp

\* from that board: snapshots pushed onto a full history, and undone
SpecHistory == InitHistory /\ [][NextHistory]_vars

\* a board of three cards: one drop of three files at (0, 0) has loaded
InitSelect ==
  /\ images = [k \in 1..MaxIdsSelect |-> newImage(k, k - 1, 0, 0)]
  /\ selectedIds = {}
  /\ history = << <<>> >>
  /\ error = Null
  /\ hasKey = TRUE
  /\ apiKey = UserKey
  /\ loadingStep = "IDLE"
  /\ isInitialLoading = FALSE
  /\ synth = [i \in 1..MaxSynth |-> IdleSynth]
  /\ ingest = [k \in 1..MaxIngest |-> IdleIngest]
  /\ gesture = NoGesture
  /\ gestures = 0
  /\ pushes = 0
  /\ nextId = MaxIdsSelect + 1
  /\ transform = InitialTransform
  /\ boards = {}

\* the pointer and keyboard handlers of the cards
NextSelect ==
  \/ \E id \in 1..MaxIdsSelect, multi \in BOOLEAN : handleMouseDown(SelectBounds, id, multi)
  \/ \E id \in 1..MaxIdsSelect : handleResizeStart(id)
  \/ \E x \in PosSet, y \in YSet : dragMove(x, y)
  \/ \E w \in WidthSet : resizeMove(w)
  \/ handleMouseUp
  \/ handleBoardMouseDown
  \/ deleteSelected(SelectBounds)
  \/ undo

SpecSelect == InitSelect /\ [][NextSelect]_vars

\* a board with the key connected and one card, of any side lengths, centred
\* on one of the centres
InitScoring ==
  /\ \E c \in ScoreCentres, w \in ScoreSizes, h \in ScoreSizes :
       images = <<[newImage(1, 0, 0, 0) EXCEPT !.x = c[1] - w \div 2, !.y = c[2] - h \div 2,
                                               !.width = w, !.height = h]>>
  /\ selectedIds = {}
  /\ history = << <<>> >>
  /\ error = Null
  /\ hasKey = TRUE
  /\ apiKey = UserKey
  /\ loadingStep = "IDLE"
  /\ isInitialLoading = FALSE
  /\ synth = [i \in 1..MaxSynth |-> IdleSynth]
  /\ ingest = [k \in 1..MaxIngest |-> IdleIngest]
  /\ gesture = NoGesture
  /\ gestures = 0
  /\ pushes = 0
  /\ nextId = 2
  /\ transform = InitialTransform
  /\ boards = {}

\* Create Image at the targets, and the answers of the service
NextScoring ==
  \/ \E t \in ScoreTargets : synthesizeAtPos(ScoringBounds, t[1], t[2], GenSize, NoText)
  \/ \E i \in 1..MaxSynth, text \in PromptTexts : promptResolved(i, text)
  \/ \E i \in 1..MaxSynth, message \in BackendMessages \cup {KeyMissingMsg} :
       promptRejected(i, message)
  \/ \E i \in 1..MaxSynth : imageResolved(i, GenData)
  \/ \E i \in 1..MaxSynth, message \in BackendMessages \cup {NoImageMsg, KeyMissingMsg} :
       imageRejected(i, message)

SpecScoring == InitScoring /\ [][NextScoring]_vars

\* a board with the key connected and up to four cards dragged onto one centre
InitContrib ==
  /\ \E n \in 1..MaxCards : \E size \in [1..n -> ContribSizes] :
       images = [k \in 1..n |->
                   [newImage(k, 0, 0, 0) EXCEPT !.x = 0 - size[k][1] \div 2,
                                                !.y = 0 - size[k][2] \div 2,
                                                !.width = size[k][1],
                                                !.height = size[k][2]]]
  /\ selectedIds = {}
  /\ history = << <<>> >>
  /\ error = Null
  /\ hasKey = TRUE
  /\ apiKey = UserKey
  /\ loadingStep = "IDLE"
  /\ isInitialLoading = FALSE
  /\ synth = [i \in 1..MaxSynth |-> IdleSynth]
  /\ ingest = [k \in 1..MaxIngest |-> IdleIngest]
  /\ gesture = NoGesture
  /\ gestures = 0
  /\ pushes = 0
  /\ nextId = Len(images) + 1
  /\ transform = InitialTransform
  /\ boards = {}

\* Create Image at the targets, and the answers of the service
NextContrib ==
  \/ \E t \in ContribTargets : synthesizeAtPos(ContribBounds, t[1], t[2], GenSize, NoText)
  \/ \E i \in 1..MaxSynth, text \in PromptTexts : promptResolved(i, text)
  \/ \E i \in 1..MaxSynth : promptRejected(i, NoText)
  \/ \E i \in 1..MaxSynth : imageResolved(i, GenData)
  \/ \E i \in 1..MaxSynth : imageRejected(i, NoImageMsg)

SpecContrib == InitContrib /\ [][NextContrib]_vars

\* Create Image on the board of SpecOverlap, and the board saved at any moment
NextStorage ==
  \/ \E posX \in PosSet, posY \in YSet :
       synthesizeAtPos(StorageBounds, posX, posY, GenSize, NoText)
  \/ \E i \in 1..MaxSynth, text \in PromptTexts : promptResolved(i, text)
  \/ \E i \in 1..MaxSynth : promptRejected(i, NoText)
  \/ \E i \in 1..MaxSynth : imageResolved(i, GenData)
  \/ \E i \in 1..MaxSynth : imageRejected(i, NoImageMsg)
  \/ \E name \in BoardNames, id \in {NoBoardId} \cup 1..MaxBoards :
       saveBoard(name, boardSnapshot(images), id)

SpecStorage == InitOverlap /\ [][NextStorage]_vars

\* e.clientX, e.clientY of the mouse events on a card
ClientSet == {<<100, 100>>, <<300, 200>>, <<500, 400>>}
\* e.deltaY of the wheel events during a drag: factors 5/4 and 1/2
DragDeltaYs == {0 - 250, 500}

\* a board with one card, dropped at (0, 0), its position kept as a fraction
InitDrag ==
  /\ images = <<[newImage(1, 0, 0, 0) EXCEPT !.x = Whole(0), !.y = Whole(0)]>>
  /\ selectedIds = {}
  /\ history = <<>>
  /\ error = Null
  /\ hasKey = FALSE
  /\ apiKey = NoText
  /\ loadingStep = "IDLE"
  /\ isInitialLoading = FALSE
  /\ synth = [i \in 1..MaxSynth |-> IdleSynth]
  /\ ingest = [k \in 1..MaxIngest |-> IdleIngest]
  /\ gesture = NoGesture
  /\ gestures = 0
  /\ pushes = 0
  /\ nextId = 2
  /\ transform = InitialTransform
  /\ boards = {}

\* a drag of the card with the wheel turned in between
NextDrag ==
  \/ \E multi \in BOOLEAN, c \in ClientSet : cardMouseDown(DragBounds, 1, multi, c[1], c[2])
  \/ \E c \in ClientSet : cardMouseMove(c[1], c[2])
  \/ handleMouseUp
  \/ \E deltaY \in DragDeltaYs, m \in MouseSet : handleWheel(DragBounds, deltaY, m[1], m[2])

SpecDrag == InitDrag /\ [][NextDrag]_vars

\* Create Image with every answer of the backend, the errors that make
\* generateImage retry included
NextFallback ==
  \/ \E posX \in PosSet, posY \in YSet :
       synthesizeAtPos(FallbackBounds, posX, posY, GenSize, NoText)
  \/ \E i \in 1..MaxSynth, text \in PromptTexts : promptResolved(i, text)
  \/ \E i \in 1..MaxSynth, message \in BackendMessages : promptRejected(i, message)
  \/ \E i \in 1..MaxSynth : imageResolved(i, GenData)
  \/ \E i \in 1..MaxSynth, message \in BackendMessages \cup {NoImageMsg} :
       imageRejected(i, message)
  \/ \E i \in 1..MaxSynth, message \in {NotSupportedMsg, NotFoundMsg} :
       imageFallback(i, message)

\* the backend answers the request of call i that is out
PromptAnswer(i) ==
  \/ \E text \in PromptTexts : promptResolved(i, text)
  \/ \E message \in BackendMessages : promptRejected(i, message)
ImageAnswer(i) ==
  \/ imageResolved(i, GenData)
  \/ \E message \in BackendMessages \cup {NoImageMsg} : imageRejected(i, message)
  \/ \E message \in {NotSupportedMsg, NotFoundMsg} : imageFallback(i, message)

\* every request sent is answered, with a result or with an error, and the
\* continuation of the call that awaits it runs
SpecFallback ==
  /\ InitOverlap
  /\ [][NextFallback]_vars
  /\ \A i \in 1..MaxSynth : WF_vars(PromptAnswer(i)) /\ WF_vars(ImageAnswer(i))

\* the viewport alone: wheel events and slider changes from the mounted board
NextViewport ==
  \/ \E deltaY \in DeltaYs, m \in MouseSet : handleWheel(ViewportBounds, deltaY, m[1], m[2])
  \/ \E value \in SliderValues : zoomSlider(ViewportBounds, value)

SpecViewport == Init /\ [][NextViewport]_vars

(* ------------------------------- claims -------------------------------- *)
\* the steps of call i, as actions
Started(i) == synth[i].pc = "idle" /\ synth'[i].pc = "prompt"
PromptFailed(i) == \E message \in BackendMessages \cup {KeyMissingMsg} : promptRejected(i, message)
ImageFailed(i) == \E message \in BackendMessages \cup {NoImageMsg, KeyMissingMsg} : imageRejected(i, message)
Failed(i) == PromptFailed(i) \/ ImageFailed(i)
Reconciled(i) == imageResolved(i, GenData)
Terminated(i) == Failed(i) \/ Reconciled(i)

PendingIds(imgs) == {imgs[k].id : k \in {j \in 1..Len(imgs) : imgs[j].isGenerating}}
IndexOf(imgs, id) == CHOOSE k \in 1..Len(imgs) : imgs[k].id = id
Others(imgs, id) == SelectSeq(imgs, LAMBDA img : img.id # id)

\* C1: when the prompt call or the image call of an invocation fails, the state
\* right after that step holds no placeable with the invocation's id and an
\* error message is set.
C1_RollbackRemovesPlaceholder ==
  [][\A i \in 1..MaxSynth :
       Failed(i) => /\ synth[i].genId \notin Ids(images')
                    /\ error' \notin {Null, NoText}]_vars

\* C1 witness: a rollback has just run (only the catch block sets ERROR), the
\* message is shown and the rest of the collection is still there.
C1_Witness ==
  /\ loadingStep = "ERROR"
  /\ error \notin {Null, NoText}
  /\ images # <<>>
  /\ PendingIds(images) = {}

\* the squared distance between an item's centre and the target centre
CentreDist2(img, posX, posY, size) ==
  LET cx == img.x + img.width \div 2
      cy == img.y + img.height \div 2
      tx == posX + size \div 2
      ty == posY + targetHeight(size, settings.aspectRatio) \div 2
  IN (cx - tx) * (cx - tx) + (cy - ty) * (cy - ty)

\* no item that is not Pending lies strictly inside the radius of the target
EmptyField(imgs, posX, posY, size) ==
  \A k \in 1..Len(imgs) :
    \/ imgs[k].isGenerating
    \/ CentreDist2(imgs[k], posX, posY, size) >= InfluenceRadius * InfluenceRadius

\* what C2 promises of a synthesizeAtPos step
EmptyFieldOutcome ==
  /\ error' = EmptyFieldMsg
  /\ images' = images
  /\ history' = history
  /\ synth' = synth

\* C2 as stated: whenever the field is empty (no items, all items on or beyond
\* the radius, or only Pending items), synthesizeAtPos sets the empty-field
\* error, inserts nothing, leaves collection and history alone and calls no
\* service.
C2_Original ==
  [][\A posX \in PosSet, posY \in YSet, userKey \in KeyInputs :
       (synthesizeAtPos(Bounds, posX, posY, GenSize, userKey)
        /\ EmptyField(images, posX, posY, GenSize)) => EmptyFieldOutcome]_vars

\* C2 amended: the same, for an invocation made while hasKey is set.
C2_EmptyFieldWithKey ==
  [][\A posX \in PosSet, posY \in YSet, userKey \in KeyInputs :
       (synthesizeAtPos(Bounds, posX, posY, GenSize, userKey)
        /\ hasKey
        /\ EmptyField(images, posX, posY, GenSize)) => EmptyFieldOutcome]_vars

\* C2 witness: the empty-field error is up although there are items on the
\* canvas, among them a Pending one.
C2_Witness ==
  /\ error = EmptyFieldMsg
  /\ loadingStep = "IDLE"
  /\ PendingIds(images) # {}
  /\ Len(images) = 2

\* C3: a successful invocation whose placeholder is still in the collection
\* turns exactly that entry into an Idle item with image data and the
\* provenance computed at scoring time; id, position, size and index stay as
\* they were just before the step.
C3_ReconcileInPlace ==
  [][\A i \in 1..MaxSynth :
       (Reconciled(i) /\ synth[i].genId \in Ids(images)) =>
         LET k == IndexOf(images, synth[i].genId)
         IN /\ Len(images') = Len(images)
            /\ images'[k].id = synth[i].genId
            /\ ~images'[k].isGenerating
            /\ images'[k].base64 # NoText
            /\ images'[k].synthesisData =
                 <<[prompt |-> synth[i].prompt, sources |-> synth[i].synthesisSources]>>
            /\ synth[i].synthesisSources # <<>>
            /\ images'[k].x = images[k].x /\ images'[k].y = images[k].y
            /\ images'[k].width = images[k].width
            /\ images'[k].height = images[k].height
            /\ \A j \in 1..Len(images) : j # k => images'[j] = images[j]]_vars

\* C3 witness: a reconciled result sits away from where its reference image
\* is, below that image in the paint order, while the card is still held.
C3_Witness ==
  /\ loadingStep = "COMPLETED"
  /\ Len(images) = 2
  /\ images[1].synthesisData # NoSynthesisData
  /\ ~images[1].isGenerating
  /\ images[1].x = 1000
  /\ images[2].base64 = FileData /\ images[2].x = 0

\* call i is between its start and its terminal step
InFlight(i, calls) == calls[i].pc # "idle"

\* C4: with two invocations overlapping, the terminal step of one (reconcile or
\* rollback) changes no entry of the collection but the one carrying its own
\* id; the other invocation's placeholder and every other item stay as they are,
\* in the same order.
C4_TerminalStepTouchesOwnIdOnly ==
  [][\A i \in 1..MaxSynth :
       Terminated(i) =>
         /\ Others(images', synth[i].genId) = Others(images, synth[i].genId)
         /\ \A j \in 1..MaxSynth :
              (j # i /\ InFlight(j, synth)) => synth'[j] = synth[j]]_vars

\* C4 witness: one invocation has ended (COMPLETED or ERROR is only written by
\* a terminal step) after another one started, and that other one is still
\* waiting for its prompt with its placeholder Pending in the collection.
C4_Witness ==
  /\ loadingStep \in {"COMPLETED", "ERROR"}
  /\ \E j \in 1..MaxSynth :
       /\ synth[j].pc = "prompt"
       /\ synth[j].genId \in PendingIds(images)

\* every id the canvas, the undo stack or a call in flight knows
UsedIds ==
  Ids(images)
    \cup UNION {Ids(history[h]) : h \in 1..Len(history)}
    \cup {synth[i].genId : i \in {j \in 1..MaxSynth : InFlight(j, synth)}}

\* C5: an invocation that passes the key and scoring checks appends exactly one
\* Pending placeholder under a fresh id; between start and end it inserts
\* nothing more; it ends in exactly one terminal step on that id, either a
\* reconcile (the entry, if still there, becomes Idle) or a removal, and after
\* it the call is over.
C5_OnePlaceholderOneTerminalStep ==
  [][\A i \in 1..MaxSynth :
       /\ Started(i) =>
            /\ synth'[i].genId \notin UsedIds
            /\ images' = Append(images, images'[Len(images')])
            /\ images'[Len(images')].id = synth'[i].genId
            /\ images'[Len(images')].isGenerating
       /\ (InFlight(i, synth) /\ InFlight(i, synth')) =>
            /\ synth'[i].genId = synth[i].genId
            /\ (synth'[i].pc # synth[i].pc =>
                  /\ synth[i].pc = "prompt" /\ synth'[i].pc = "image"
                  /\ images' = images)
       /\ (InFlight(i, synth) /\ ~InFlight(i, synth')) =>
            LET genId == synth[i].genId
            IN /\ \/ /\ loadingStep' = "COMPLETED"
                     /\ Ids(images') = Ids(images)
                     /\ genId \notin PendingIds(images')
                  \/ /\ loadingStep' = "ERROR"
                     /\ images' = Others(images, genId)
               /\ Others(images', genId) = Others(images, genId)
               /\ \A j \in 1..MaxSynth : InFlight(j, synth') => synth'[j].genId # genId]_vars

\* C5 witness: both ends are seen together: one call has ended in a reconcile
\* and its result is on the canvas, while another call has been started since
\* and its single placeholder is Pending.
C5_Witness ==
  /\ \E i \in 1..MaxSynth : InFlight(i, synth) /\ synth[i].genId \in PendingIds(images)
  /\ \E k \in 1..Len(images) :
       ~images[k].isGenerating /\ images[k].synthesisData # NoSynthesisData

\* C6: generateImage is only ever called right after generateSynthesisPrompt of
\* the same invocation has resolved, and an invocation whose prompt call fails
\* ends there without an image call.
C6_ImageCallOnlyAfterPrompt ==
  /\ [](\A i \in 1..MaxSynth :
          /\ \A n \in 1..Len(synth[i].log) :
               synth[i].log[n] = "generateImage" =>
                 /\ n = 3
                 /\ synth[i].log[1] = "generateSynthesisPrompt"
                 /\ synth[i].log[2] = "promptResolved"
          /\ synth[i].pc = "image" => Len(synth[i].log) = 3)
  /\ [][\A i \in 1..MaxSynth :
          PromptFailed(i) => /\ ~InFlight(i, synth')
                             /\ "generateImage" \notin {synth[i].log[n] : n \in 1..Len(synth[i].log)}]_vars

\* C6 witness: the image call of an invocation is in flight, made with the
\* default prompt after the prompt call resolved without a text.
C6_Witness ==
  \E i \in 1..MaxSynth :
    /\ synth[i].pc = "image"
    /\ synth[i].prompt = DefaultPrompt
    /\ loadingStep = "GENERATING"

\* C7 as stated: a placeholder leaves Pending exactly once, so every Pending
\* entry of the collection belongs to an invocation that has not ended yet;
\* once the invocation is over its id is never Pending again, undo included.
C7_Original ==
  \A k \in 1..Len(images) :
    images[k].isGenerating =>
      \E i \in 1..MaxSynth : InFlight(i, synth) /\ synth[i].genId = images[k].id

\* C8: the items scored by an invocation, and so the contributors handed to the
\* prompt call and stored as provenance, are never Pending items of the
\* collection it starts from, other invocations' placeholders included.
C8_PendingNeverScored ==
  [][\A i \in 1..MaxSynth :
       Started(i) =>
         /\ \A n \in 1..Len(synth'[i].scoredImages) :
              /\ synth'[i].scoredImages[n].id \notin PendingIds(images)
              /\ synth'[i].scoredImages[n].id \in Ids(images)
              /\ synth'[i].scoredImages[n].base64 # NoText
         /\ Len(synth'[i].synthesisSources) = Len(synth'[i].scoredImages)
         /\ \A n \in 1..Len(synth'[i].synthesisSources) :
              synth'[i].synthesisSources[n].thumbnail # NoText]_vars

\* C8 witness: two invocations are in flight at once, both placeholders are
\* Pending in the collection, and the later one was scored with the earlier
\* placeholder lying inside the radius.
C8_Witness ==
  /\ \A i \in 1..MaxSynth : InFlight(i, synth) /\ synth[i].genId \in PendingIds(images)
  /\ \E k \in 1..Len(images), l \in 1..Len(images) :
       /\ k < l
       /\ images[k].isGenerating /\ images[l].isGenerating
       /\ images[k].x = images[l].x

\* C9: in every state of the canvas an item is Pending exactly when it has no
\* image data.
C9_PendingIffNoImageData ==
  \A k \in 1..Len(images) : images[k].isGenerating <=> images[k].base64 = NoText

\* C9 witness: a reconciled result, Idle with image data, while the snapshot on
\* the undo stack still holds the same id as a Pending placeholder without.
C9_Witness ==
  /\ history # <<>>
  /\ \E k \in 1..Len(images) :
       /\ images[k].synthesisData # NoSynthesisData
       /\ images[k].base64 = GenData
       /\ images[k].id \in PendingIds(history[Len(history)])

\* C10 as stated: for ingestion, removal and bulk delete the snapshot pushed is
\* the collection as it is right before the mutation is applied, whatever else
\* is interleaved.
C10_Original ==
  [][/\ \A k \in 1..MaxIngest :
          filesLoaded(Bounds, k) => ingest[k].snapshot = images
     /\ ((\E id \in 1..MaxIds : onRemove(Bounds, id) \/ dissolveNode(Bounds, id))
           \/ deleteSelected(Bounds))
          => history'[Len(history')] = images]_vars

\* a step pushes a snapshot of the collection as it is before the step
PushesSnapshot ==
  /\ history' # history
  /\ history' # <<>>
  /\ history'[Len(history')] = images

\* C11 as stated: the two structural mutations synthesizeAtPos makes, the
\* insertion of the placeholder and its removal by the rollback, each come with
\* a snapshot of the collection as it was just before the mutation.
C11_Original ==
  [][\A i \in 1..MaxSynth :
       /\ Started(i) => PushesSnapshot
       /\ (Failed(i) /\ synth[i].genId \in Ids(images)) => PushesSnapshot]_vars

\* a removal by the close button, Dissolve Node or Backspace / Delete: the
\* snapshot and the mutation are one step
RemovalStep(b) ==
  \/ \E id \in 1..b.ids : onRemove(b, id) \/ dissolveNode(b, id)
  \/ deleteSelected(b)

\* any handler step that calls saveToHistory
SnapshotStep(b) ==
  \/ RemovalStep(b)
  \/ \E files \in 1..MaxFiles, startX \in PosSet, startY \in YSet :
       processFiles(b, files, startX, startY)

\* C12: undo is a stack. A restore sets the collection to the newest snapshot
\* and drops only that one; a snapshotted mutation below the capacity puts the
\* pre-mutation collection on top and keeps what is below. So the restores
\* after the twenty non-overlapping drops and removals behind the full history
\* go through the pre-mutation collections in reverse order, down to the empty
\* history.
C12_UndoIsLifo ==
  /\ []((pushes = 0 /\ gestures = 0) =>
          /\ Len(history) <= Capacity
          /\ history = SubSeq(InitialHistory, 1, Len(history))
          /\ Len(history) < Capacity => images = InitialHistory[Len(history) + 1])
  /\ [][/\ (undo /\ history # <<>>) =>
             /\ images' = history[Len(history)]
             /\ history' = SubSeq(history, 1, Len(history) - 1)
        /\ (SnapshotStep(HistoryBounds) /\ Len(history) < Capacity) =>
             history' = Append(history, images)]_vars

\* C12 witness: two removals or drops were snapshotted onto the full history
\* and two restores followed: the two oldest snapshots are evicted, the rest
\* of the history is as it was and the collection is the one before the first
\* of the two mutations.
C12_Witness ==
  /\ pushes = 2
  /\ history = SubSeq(InitialHistory, 3, Capacity)
  /\ images = <<newImage(Capacity \div 2 + 1, 0, 0, 0)>>
  /\ gestures = 0

\* C13: the history never holds more than 20 snapshots, and a snapshot pushed
\* onto a history of 20 evicts the oldest one: the other 19 move down one place
\* in their order and the new snapshot, the collection before the step, is
\* last.
C13_CapacityAndEviction ==
  /\ [](Len(history) <= Capacity)
  /\ [][(SnapshotStep(HistoryBounds) /\ Len(history) = Capacity) =>
          /\ Len(history') = Capacity
          /\ \A j \in 1..(Capacity - 1) : history'[j] = history[j + 1]
          /\ history'[Capacity] = images]_vars

\* C13 witness: one snapshot has been pushed onto the full history: the oldest
\* snapshot is gone, the nineteen others have moved down and the one-image
\* board the push found is on top.
C13_Witness ==
  /\ pushes = 1
  /\ Len(history) = Capacity
  /\ history[1] = InitialHistory[2] /\ history[1] # InitialHistory[1]
  /\ history[Capacity - 1] = InitialHistory[Capacity]
  /\ history[Capacity] = <<newImage(Capacity \div 2 + 1, 0, 0, 0)>>

\* C14: Ctrl/Cmd+Z with an empty history changes nothing: the collection, the
\* history and the selection are what they were.
C14_UndoOnEmptyHistory ==
  [][(undo /\ history = <<>>) =>
       /\ images' = images
       /\ history' = <<>>
       /\ selectedIds' = selectedIds]_vars

\* C14 witness: the history is empty while there is a selected card on the
\* canvas and a call in flight, so a restore of anything would show.
C14_Witness ==
  /\ history = <<>>
  /\ images # <<>>
  /\ selectedIds # {}
  /\ \E i \in 1..MaxSynth : InFlight(i, synth)

\* a step of the handlers that only move, resize, raise or select cards
TransformStep(b) ==
  \/ \E id \in 1..b.ids, multi \in BOOLEAN : handleMouseDown(b, id, multi)
  \/ \E id \in 1..b.ids : handleResizeStart(id)
  \/ \E x \in PosSet, y \in YSet : dragMove(x, y)
  \/ \E w \in WidthSet : resizeMove(w)
  \/ handleBoardMouseDown

\* C15: a drag (updatePosition), a resize (updateSize), bringToFront and a
\* change of the selection neither push a snapshot nor remove one: the history
\* after the step is the history before it.
C15_TransformsKeepHistory ==
  [][TransformStep(Bounds) => history' = history]_vars

\* C15 witness: a card has been resized, so it has been selected, raised,
\* and its size updated, while the history still holds its one snapshot and
\* that snapshot shows the card as it was dropped.
C15_Witness ==
  /\ gesture.kind = "resize"
  /\ Len(history) = 1
  /\ \E k \in 1..Len(images), h \in 1..Len(history[1]) :
       /\ images[k].id = gesture.id
       /\ history[1][h].id = gesture.id
       /\ history[1][h].width = BaseWidth
       /\ images[k].width \in WidthSet

\* C16: no two entries of the collection carry the same id, whatever the
\* interleaving of drops, placeholder insertions, reconciles, rollbacks,
\* removals and restores (uuidv4 modelled as a source of fresh ids).
C16_IdsAreUnique ==
  \A k \in 1..Len(images), l \in 1..Len(images) :
    k # l => images[k].id # images[l].id

\* C16 witness: three entries from three sources are on the canvas together:
\* a dropped file, a reconciled result and a placeholder still Pending.
C16_Witness ==
  /\ Len(images) = 3
  /\ PendingIds(images) # {}
  /\ \E k \in 1..Len(images) : images[k].synthesisData # NoSynthesisData
  /\ \E k \in 1..Len(images) : images[k].base64 = FileData

\* C17 as stated: a synthesizeAtPos invoked without a usable credential (no
\* key connected, or the stored key string empty) inserts no placeholder and
\* starts no call.
C17_Original ==
  [][\A posX \in PosSet, posY \in YSet, userKey \in KeyInputs :
       (synthesizeAtPos(Bounds, posX, posY, GenSize, userKey)
        /\ (~hasKey \/ apiKey = NoText)) =>
         /\ images' = images
         /\ synth' = synth]_vars

\* the messages a service call can fail with
FailureMessages == BackendMessages \cup {NoImageMsg, KeyMissingMsg}

\* call i fails with this message
FailedWith(i, message) == promptRejected(i, message) \/ imageRejected(i, message)

\* C18: a failure whose message says "Requested entity was not found" or
\* "API_KEY" sets hasKey to false, any other failure leaves hasKey as it is;
\* while hasKey is false synthesizeAtPos inserts no placeholder and starts no
\* service call, and hasKey only becomes true again by a key entered in the
\* key dialog.
C18_KeyFailureResetsFlag ==
  [][/\ \A i \in 1..MaxSynth, message \in FailureMessages :
          FailedWith(i, message) =>
            IF message \in {EntityMsg, ApiKeyMsg} THEN ~hasKey' ELSE hasKey' = hasKey
     /\ \A posX \in PosSet, posY \in YSet, userKey \in KeyInputs :
          (synthesizeAtPos(Bounds, posX, posY, GenSize, userKey) /\ ~hasKey) =>
            /\ images' = images
            /\ synth' = synth
     /\ \A i \in 1..MaxSynth : Started(i) => hasKey
     /\ (~hasKey /\ hasKey' /\ ~isInitialLoading) =>
          /\ apiKey' \in KeyInputs \ {NoText}
          /\ \E userKey \in KeyInputs \ {NoText} : handleOpenKeySelection(userKey)]_vars

\* C18 witness: a key was entered, a call failed with a key failure and reset
\* the flag, and a later synthesizeAtPos was turned away at the key check:
\* the stored key is still there, the flag is down and the canvas holds no
\* placeholder.
C18_Witness ==
  /\ ~hasKey
  /\ apiKey = UserKey
  /\ error = ConnectKeyMsg
  /\ loadingStep = "ERROR"
  /\ images # <<>>
  /\ PendingIds(images) = {}

\* the messages the catch block of synthesizeAtPos can set
ReportedMessages ==
  {KeyFailedMsg, SynthFailedMsg, ImageFailedMsg, NoImageMsg, KeyMissingMsg}

C20_BringToFront ==
  /\ [](\A id \in 1..MaxIdsOverlap :
          LET r == bringToFront(images, id)
          IN IF id \in Ids(images)
             THEN /\ Len(r) = Len(images)
                  /\ r[Len(r)] = images[IndexOf(images, id)]
                  /\ Others(r, id) = Others(images, id)
             ELSE r = images)
  /\ [][\A id \in 1..MaxIdsOverlap, multi \in BOOLEAN :
          handleMouseDown(OverlapBounds, id, multi) =>
            images' = Others(images, id) \o <<images[IndexOf(images, id)]>>]_vars

\* C20 witness: the oldest of three cards has been raised from the bottom by
\* a mouse-down: it is last, and the two others have kept their order below.
C20_Witness ==
  /\ Len(images) = 3
  /\ gesture.kind = "drag"
  /\ images[3].id = gesture.id
  /\ images[3].id = 1
  /\ images[1].id = 2
  /\ images[2].id = 3

\* C21: bringToFront is idempotent: applying it twice in a row with the same
\* id gives the collection that applying it once gives. Stated of the function
\* on every collection a run reaches and every id, and of the resize start on
\* the card a mouse-down has just raised, whose second call changes nothing.
C21_BringToFrontIdempotent ==
  /\ [](\A id \in 1..MaxIdsOverlap :
          bringToFront(bringToFront(images, id), id) = bringToFront(images, id))
  /\ [][\A id \in 1..MaxIdsOverlap :
          (handleResizeStart(id) /\ images[Len(images)].id = id) =>
            images' = images]_vars

\* C21 witness: the oldest of three cards was raised by the mouse-down that
\* selected it and raised again by the resize start that followed.
C21_Witness ==
  /\ Len(images) = 3
  /\ gestures = 1
  /\ selectedIds = {1}
  /\ gesture = [kind |-> "resize", id |-> 1]
  /\ images[3].id = 1

\* any two entries of a that are also in b are in b in the order they have in a
OrderKept(a, b) ==
  \A k, l \in 1..Len(a) : \A m, n \in 1..Len(b) :
    (k < l /\ b[m].id = a[k].id /\ b[n].id = a[l].id) => m < n

\* a step that calls bringToFront: a mouse-down on a card or on its handle
RaiseStep(b) ==
  \/ \E id \in 1..b.ids, multi \in BOOLEAN : handleMouseDown(b, id, multi)
  \/ \E id \in 1..b.ids : handleResizeStart(id)

\* C22 as stated: every step but a call of bringToFront, undo included, keeps
\* the relative order of the placeables that are there before and after it.
C22_Original ==
  [][~RaiseStep(Bounds) => OrderKept(images, images')]_vars

\* C22: every step but a call of bringToFront and an undo keeps the relative
\* order of the placeables that are there before and after it (file ingestion,
\* placeholder insertion, reconcile, rollback, removal, bulk delete, drag,
\* resize); an undo puts the order of its snapshot back.
C22_OnlyRaiseAndUndoReorder ==
  [][/\ (~RaiseStep(Bounds) /\ ~undo) => OrderKept(images, images')
     /\ (undo /\ history # <<>>) => images' = history[Len(history)]]_vars

\* C22 witness: the first card was raised over the second one and then
\* resized; the resize has left it on top.
C22_Witness ==
  /\ Len(images) = 2
  /\ images[1].id = 2
  /\ images[2].id = 1
  /\ gesture = [kind |-> "resize", id |-> 1]
  /\ images[2].width = 400

\* C23: a single-select of id (multi false) makes the selection exactly {id},
\* whatever it was before, id already selected included. Stated of the
\* function on every selection a run reaches and every id, and of the
\* mouse-down without a modifier key, which calls it.
C23_SingleSelectReplaces ==
  /\ [](\A id \in 1..MaxIdsSelect : handleSelect(selectedIds, id, FALSE) = {id})
  /\ [][\A id \in 1..MaxIdsSelect :
          handleMouseDown(SelectBounds, id, FALSE) => selectedIds' = {id}]_vars

\* C23 witness: after three mouse-downs, the last one on card 2 over card 1
\* raised before it, card 2 alone is selected.
C23_Witness ==
  /\ gestures = 3
  /\ gesture = [kind |-> "drag", id |-> 2]
  /\ Len(images) = 3
  /\ images[2].id = 1
  /\ images[3].id = 2
  /\ selectedIds = {2}

\* C24: a multi-select of id toggles the membership of id and of no other id:
\* id is added when it is not selected, taken out when it is, and two of them
\* in a row give the selection back. Stated of the function on every selection
\* a run reaches and every id, and of the mouse-down with a modifier key.
C24_MultiSelectToggles ==
  /\ [](\A id \in 1..MaxIdsSelect :
          LET once == handleSelect(selectedIds, id, TRUE)
          IN /\ once \ {id} = selectedIds \ {id}
             /\ (id \in once) = (id \notin selectedIds)
             /\ handleSelect(once, id, TRUE) = selectedIds)
  /\ [][\A id \in 1..MaxIdsSelect :
          handleMouseDown(SelectBounds, id, TRUE) =>
            /\ selectedIds' \ {id} = selectedIds \ {id}
            /\ (id \in selectedIds') = (id \notin selectedIds)]_vars

\* C24 witness: cards 1 and 2 were selected together and the third mouse-down,
\* on card 2 with a modifier key, has taken card 2 out again.
C24_Witness ==
  /\ gestures = 3
  /\ gesture = [kind |-> "drag", id |-> 2]
  /\ Len(images) = 3
  /\ images[2].id = 1
  /\ images[3].id = 2
  /\ selectedIds = {1}

\* the position and size of the entry of imgs with this id
Geometry(imgs, id) ==
  LET img == imgs[IndexOf(imgs, id)]
  IN <<img.x, img.y, img.width, img.height>>

\* a pointer-move step of a card: onUpdatePosition or onUpdateSize
MoveStep ==
  \/ \E x \in PosSet, y \in YSet : dragMove(x, y)
  \/ \E w \in WidthSet : resizeMove(w)

\* C25: a mouse-down on a card and a mouse-down on its resize handle bring the
\* card to the last index before any position or size update of the gesture:
\* the step that starts a gesture leaves the card last and every position and
\* size as they are, and a position or size update is only applied to the card
\* of a gesture started that way.
C25_RaiseBeforeMove ==
  [][/\ (gesture' # gesture /\ gesture' # NoGesture) =>
          /\ gesture = NoGesture
          /\ images'[Len(images')].id = gesture'.id
          /\ Ids(images') = Ids(images)
          /\ \A id \in Ids(images) : Geometry(images', id) = Geometry(images, id)
     /\ MoveStep =>
          /\ gesture # NoGesture /\ gesture' = gesture
          /\ \A id \in Ids(images) \ {gesture.id} :
               Geometry(images', id) = Geometry(images, id)]_vars

\* C25 witness: card 1, one of two selected cards, is on top of the two
\* others and has been resized by the gesture in progress on its handle.
C25_Witness ==
  /\ gestures = 2
  /\ selectedIds = {1, 2}
  /\ gesture = [kind |-> "resize", id |-> 1]
  /\ Len(images) = 3
  /\ images[2].id = 2
  /\ images[3].id = 1
  /\ images[3].width = 400

\* C26 as stated: an entry that carries a provenance keeps it in every step
\* that keeps its id in the collection, undo included, and an entry made from
\* a dropped file carries none.
C26_Original ==
  /\ [](\A k \in 1..Len(images) :
          images[k].base64 = FileData => images[k].synthesisData = NoSynthesisData)
  /\ [][\A id \in Ids(images) \cap Ids(images') :
          images[IndexOf(images, id)].synthesisData # NoSynthesisData =>
            images'[IndexOf(images', id)].synthesisData =
              images[IndexOf(images, id)].synthesisData]_vars

\* C27: the viewport scale is within [0.05, 5] in every state, whatever wheel
\* events (deltaY making the factor zero or negative included) and slider
\* changes came since the initial scale 0.8.
C27_ScaleWithinBounds ==
  /\ RatLeq(ScaleMin, transform.scale)
  /\ RatLeq(transform.scale, ScaleMax)

\* C27 witness: the first event, a wheel event with a zero or negative
\* factor, has left the scale at the lower bound.
C27_Witness ==
  /\ gestures = 1
  /\ transform.scale = ScaleMin

\* the canvas coordinate under screen coordinate m: (m - offset) / scale
CanvasPoint(m, offset, scale) == RatDiv(RatSub(m, offset), scale)

\* C28: a zoom keeps the canvas point under its anchor where it is, on each
\* axis: (m - offset') / s1 = (m - offset) / s0 with s1 the new scale, for the
\* wheel zoom (m the pointer) and the slider zoom (m the centre of the board).
\* Numbers are exact fractions here; in doubles the two sides agree up to
\* rounding.
C28_AnchorStaysFixed ==
  [][/\ \A deltaY \in DeltaYs, m \in MouseSet :
          handleWheel(ViewportBounds, deltaY, m[1], m[2]) =>
            /\ CanvasPoint(Whole(m[1]), transform'.x, transform'.scale)
                 = CanvasPoint(Whole(m[1]), transform.x, transform.scale)
            /\ CanvasPoint(Whole(m[2]), transform'.y, transform'.scale)
                 = CanvasPoint(Whole(m[2]), transform.y, transform.scale)
     /\ \A value \in SliderValues :
          zoomSlider(ViewportBounds, value) =>
            /\ CanvasPoint(Rat(RectWidth, 2), transform'.x, transform'.scale)
                 = CanvasPoint(Rat(RectWidth, 2), transform.x, transform.scale)
            /\ CanvasPoint(Rat(RectHeight, 2), transform'.y, transform'.scale)
                 = CanvasPoint(Rat(RectHeight, 2), transform.y, transform.scale)]_vars

\* C28 witness: a wheel zoom to scale 1 around the pointer at (200, 500) has
\* moved the offset, and a slider change to 2 around the centre has followed it.
C28_Witness ==
  /\ gestures = 2
  /\ transform = [x |-> Whole(0 - 500), y |-> Whole(0 - 550), scale |-> Whole(2)]

\* the proximity weight of an item against the target with this corner
WeightAt(img, t, radius) ==
  calculateProximityWeight(img.x, img.y, img.width, img.height,
                           t[1] + GenSize \div 2, t[2] + GenSize \div 2, radius)

\* C29: the proximity weight (in thousandths) is 1 when the item's centre is
\* the target centre, 0 at a distance equal to the radius, 0 at every greater
\* distance, non-increasing in the distance up to the radius and always within
\* [0, 1]. Stated of the function on every card, target and radius, and of
\* Create Image, which scores an item exactly when its weight is positive,
\* that is when it lies closer than the radius.
C29_ProximityWeight ==
  /\ [](\A k \in 1..Len(images), t \in ScoreTargets, radius \in RadiusSet :
          LET d2 == CentreDist2(images[k], t[1], t[2], GenSize)
              weight == WeightAt(images[k], t, radius)
          IN /\ weight >= 0 /\ weight <= 1000
             /\ d2 = 0 => weight = 1000
             /\ d2 = radius * radius => weight = 0
             /\ d2 > radius * radius => weight = 0
             /\ \A u \in ScoreTargets :
                  (d2 <= CentreDist2(images[k], u[1], u[2], GenSize)
                   /\ CentreDist2(images[k], u[1], u[2], GenSize) <= radius * radius)
                    => weight >= WeightAt(images[k], u, radius))
  /\ [][\A t \in ScoreTargets, i \in 1..MaxSynth :
          (synthesizeAtPos(ScoringBounds, t[1], t[2], GenSize, NoText) /\ Started(i)) =>
            \A k \in 1..Len(images) :
              (\E n \in 1..Len(synth'[i].scoredImages) :
                 synth'[i].scoredImages[n].id = images[k].id)
              <=> (/\ ~images[k].isGenerating
                   /\ CentreDist2(images[k], t[1], t[2], GenSize)
                        < InfluenceRadius * InfluenceRadius)]_vars

\* C29 witness: Create Image ran with its centre 900 away from the centre of
\* a 200 by 200 card, which was scored with a tenth of its size score.
C29_Witness ==
  /\ Len(images) = 2
  /\ images[2].isGenerating
  /\ images[1].width = 200 /\ images[1].height = 200
  /\ CentreDist2(images[1], images[2].x, images[2].y, GenSize) = 900 * 900
  /\ \E i \in 1..MaxSynth :
       /\ synth[i].genId = images[2].id
       /\ synth[i].scoredImages[1].rawWeight = 1000 * 100

\* C30: the size score (in thousandths) is min(5, max(1, width * height /
\* 40000)): 1 up to an area of 40000, 5 from an area of 200000, the quotient
\* in between, so never below 1 nor above 5, and non-decreasing in the area.
\* Stated of the function on every card and pair of side lengths, and of
\* Create Image, which weighs an item under its centre with this score.
C30_SizeScore ==
  /\ [](\A k \in 1..Len(images) :
          LET area == images[k].width * images[k].height
              score == calculateBaseSizeScore(images[k].width, images[k].height)
          IN /\ score >= SizeScoreMin * 1000 /\ score <= SizeScoreMax * 1000
             /\ area <= SizeScoreMin * AreaNorm => score = SizeScoreMin * 1000
             /\ area >= SizeScoreMax * AreaNorm => score = SizeScoreMax * 1000
             /\ (area >= SizeScoreMin * AreaNorm /\ area <= SizeScoreMax * AreaNorm) =>
                  (score * AreaNorm <= area * 1000 /\ area * 1000 < (score + 1) * AreaNorm)
             /\ \A w \in ScoreSizes, h \in ScoreSizes :
                  area <= w * h => score <= calculateBaseSizeScore(w, h))
  /\ [][\A t \in ScoreTargets, i \in 1..MaxSynth :
          (synthesizeAtPos(ScoringBounds, t[1], t[2], GenSize, NoText) /\ Started(i)
           /\ CentreDist2(images[1], t[1], t[2], GenSize) = 0) =>
            LET area == images[1].width * images[1].height
                raw == synth'[i].scoredImages[1].rawWeight
            IN /\ raw >= SizeScoreMin * 1000000 /\ raw <= SizeScoreMax * 1000000
               /\ (area >= SizeScoreMin * AreaNorm /\ area <= SizeScoreMax * AreaNorm) =>
                    /\ raw * (AreaNorm \div 1000) <= area * 1000
                    /\ area * 1000 < (raw + 1000) * (AreaNorm \div 1000)]_vars

\* C30 witness: Create Image ran centred on a 500 by 500 card, whose quotient
\* 6.25 was scored as 5.
C30_Witness ==
  /\ Len(images) = 2
  /\ images[2].isGenerating
  /\ images[1].width * images[1].height = 250000
  /\ CentreDist2(images[1], images[2].x, images[2].y, GenSize) = 0
  /\ \E i \in 1..MaxSynth :
       /\ synth[i].genId = images[2].id
       /\ synth[i].scoredImages[1].rawWeight = SizeScoreMax * 1000000

\* the combined score of an item against the target with this corner, in
\* millionths: sizeScore * proxWeight * 2
CombinedAt(img, t) ==
  calculateBaseSizeScore(img.width, img.height) * WeightAt(img, t, InfluenceRadius) * 2

\* C31: every item handed to generateSynthesisPrompt has a combined score
\* sizeScore * proximityWeight * 2 within (0, 10], an item whose combined
\* score is 0 is not handed over, and the influence score written into the
\* request for each item is an integer from 0 to 10.
C31_ScoresOfTheRequest ==
  [][\A t \in ScoreTargets, i \in 1..MaxSynth :
       (synthesizeAtPos(ScoringBounds, t[1], t[2], GenSize, NoText) /\ Started(i)) =>
         /\ \A n \in 1..Len(synth'[i].scoredImages) :
              LET sc == synth'[i].scoredImages[n]
              IN /\ sc.score > 0 /\ sc.score <= ScoreMax * 1000000
                 /\ sc.score = CombinedAt(images[IndexOf(images, sc.id)], t)
                 /\ influenceScore(sc.score) \in 0..ScoreMax
         /\ \A k \in 1..Len(images) :
              CombinedAt(images[k], t) = 0 =>
                \A n \in 1..Len(synth'[i].scoredImages) :
                  synth'[i].scoredImages[n].id # images[k].id]_vars

\* C31 witness: a request is out for a 200 by 200 card 900 away from the
\* target: its combined score is 0.2, written as influence score 0.
C31_Witness ==
  \E i \in 1..MaxSynth :
    /\ synth[i].pc = "prompt"
    /\ Len(synth[i].scoredImages) = 1
    /\ synth[i].scoredImages[1].score = 200000
    /\ influenceScore(synth[i].scoredImages[1].score) = 0

\* the sum of the contribution percentages of a provenance's contributors
RECURSIVE SumContribution(_)
SumContribution(sources) ==
  IF sources = <<>> THEN 0
  ELSE Head(sources).contribution + SumContribution(Tail(sources))

\* C32 as stated: whatever the number of contributors and their raw weights,
\* the contribution percentages of one invocation sum to 99, 100 or 101, and an
\* item of raw weight 0 is no contributor.
C32_Original ==
  [][\A i \in 1..MaxSynth :
       Started(i) =>
         /\ SumContribution(synth'[i].synthesisSources) \in 99..101
         /\ Len(synth'[i].synthesisSources) = Len(synth'[i].scoredImages)
         /\ \A n \in 1..Len(synth'[i].scoredImages) :
              synth'[i].scoredImages[n].rawWeight > 0]_vars

\* C33: no record of the store holds a Pending placeable: after any saveBoard
\* every placeable of the stored board state is Idle.
C33_NoPendingStored ==
  \A board \in boards :
    \A k \in 1..Len(board.state.images) : ~board.state.images[k].isGenerating

\* C33 witness: a stored board holds the Idle cards of a collection in which a
\* placeholder is Pending.
C33_Witness ==
  /\ PendingIds(images) # {}
  /\ \E board \in boards :
       /\ board.state.images = notGenerating(images)
       /\ Len(board.state.images) = 2

\* C34: when the placeholder of an invocation has left the collection while
\* its calls were in flight (Dissolve Node, the card's close button, a bulk
\* delete, an undo), the successful end of the invocation puts no placeable
\* with that id back: it leaves the collection as it is.
C34_NoResurrectionByReconcile ==
  [][\A i \in 1..MaxSynth :
       (Reconciled(i) /\ synth[i].genId \notin Ids(images)) =>
         /\ images' = images
         /\ synth[i].genId \notin Ids(images')]_vars

\* C34 witness: the placeholder of the one invocation was removed while
\* Pending, as the snapshot of that removal shows, and the invocation has
\* ended with success; the collection holds the reference card alone.
C34_Witness ==
  /\ loadingStep = "COMPLETED"
  /\ \A i \in 1..MaxSynth : ~InFlight(i, synth)
  /\ nextId = 3
  /\ Ids(images) = {1}
  /\ Len(history) = 1
  /\ \E k \in 1..Len(history[1]) : history[1][k].id = 2 /\ history[1][k].isGenerating

\* C35 as stated: with every single request answered, every invocation that
\* inserted a placeholder reaches its terminal step, whatever the backend
\* answers, the errors that make generateImage fall back to Imagen included.
C35_Original ==
  \A i \in 1..MaxSynth : InFlight(i, synth) ~> ~InFlight(i, synth)


\* C36: no step changes a snapshot the history holds. After any step the
\* history is the one before it, or that one without its newest snapshot
\* (a restore), or that one, without its oldest snapshot when it was full, with
\* one snapshot added on top (a push): every snapshot that stays is the
\* collection it was when pushed, whatever drags, resizes, raises, reconciles,
\* rollbacks, drops and removals did to the collection since.
C36_SnapshotsAreFrozen ==
  [][LET n == Len(history)
         m == Len(history')
     IN \/ history' = history
        \/ n > 0 /\ history' = SubSeq(history, 1, n - 1)
        \/ LET evicted == IF n = Capacity THEN 1 ELSE 0
           IN /\ m = n - evicted + 1
              /\ SubSeq(history', 1, m - 1) = SubSeq(history, 1 + evicted, n)]_vars

\* C36 witness: a card is being dragged away from the place it has in the
\* stored snapshot, and an entry that was Pending when the snapshot was pushed
\* has been reconciled since: the snapshot still shows both as they were.
C36_Witness ==
  /\ gesture.kind = "drag"
  /\ Len(history) = 1
  /\ \E k \in 1..Len(images), h \in 1..Len(history[1]) :
       /\ images[k].id = gesture.id
       /\ history[1][h].id = gesture.id
       /\ images[k].x # history[1][h].x
  /\ \E k \in 1..Len(images), h \in 1..Len(history[1]) :
       /\ images[k].id = history[1][h].id
       /\ history[1][h].isGenerating
       /\ ~images[k].isGenerating


\* the sum of two fractions
RatAdd(p, q) == Rat(p.n * q.d + q.n * p.d, p.d * q.d)

\* C37 as stated: during a drag, after every pointer move the item's canvas
\* position is its position at mouse-down plus the pointer's screen
\* displacement since mouse-down divided by the current scale, wheel zooms
\* between mouse-down and the move included.
C37_Original ==
  [][\A c \in ClientSet :
       cardMouseMove(c[1], c[2]) =>
         \A k \in 1..Len(images') :
           images'[k].id = gesture.id =>
             /\ images'[k].x = RatAdd(gesture.start.x,
                                      RatDiv(Whole(c[1] - gesture.down.x), transform.scale))
             /\ images'[k].y = RatAdd(gesture.start.y,
                                      RatDiv(Whole(c[2] - gesture.down.y), transform.scale))]_vars


\* C38 as stated: the selection holds only ids of placeables that are in the
\* collection, after any sequence of selects, card removals, context-menu
\* deletes, bulk deletes, synthesis rollbacks and undo restores.
C38_Original == selectedIds \subseteq Ids(images)


\* C39 as stated: whenever at least one synthesis invocation is awaiting an
\* external call, the loading step is ANALYZING or GENERATING, also when
\* several invocations overlap and one of them completes or fails while
\* another is still in flight.
C39_Original ==
  (\E i \in 1..MaxSynth : InFlight(i, synth)) => loadingStep \in {"ANALYZING", "GENERATING"}
====
